---- MODULE Spec2Model ----
(***************************************************************************)
(* Model of the zoominfo-companies-scraper extraction core and its two     *)
(* run loops (src/main.py, src/runner.py).                                 *)
(*                                                                         *)
(* Python values are tagged records [t, v]; strings are sequences of       *)
(* one-character strings so that the regular expressions and the text      *)
(* utilities of data_utils.py can be computed character by character.      *)
(* A raised exception is the value Raise(kind); every operator that calls  *)
(* code that may raise propagates it the way Python does.                  *)
(***************************************************************************)
EXTENDS Integers, Sequences, FiniteSets, TLC

VARIABLES
    pc,          \* phase of the operation under check
    primary,     \* merge_dicts: first argument
    secondary,   \* merge_dicts: second argument
    result,      \* merge_dicts: returned mapping
    merge_args,  \* merge_dicts: the two mappings as they were when passed in
    scripts,     \* _extract_ld_json: the page's application/ld+json scripts, in document order
    best,        \* _extract_ld_json: returned descriptor
    raw_text,    \* extract_currency_amount: the text passed in
    extracted,   \* extract_currency_amount: returned pair <<amount, currency>>
    id_url,      \* _extract_company_id: the source URL
    id_ld_json,  \* _extract_company_id: the structured-data payload
    company_id,  \* _extract_company_id: returned identifier
    page_html,   \* parse_company: the page, parsed
    page_url,    \* parse_company: the source URL
    company,     \* parse_company: the record returned, or the exception raised
    entry,       \* run loops: the script started, "runner" (runner.py) or "main" (main.py)
    config_path, \* run loops: the --config / --settings argument, or None
    config_files,   \* run loops: the configuration files that exist
    input_file,  \* run loops: the --input file, [exists, lines]
    settings,    \* run loops: what load_settings returned or raised
    urls,        \* run loops: the URL list read from the input file
    futures,     \* runner.py: the tasks submitted to the thread pool, one per URL
    companies,   \* runner.py: the records collected from the completed tasks
    all_results, \* main.py: the records and placeholders appended by the loop
    fetch_started,  \* run loops: the positions in urls whose fetch has been started
    exported,    \* run loops: the list handed to the exporter, None before that
    exit_code,   \* run loops: the exit code of runner.py, the exception that ended main.py
    responses,   \* worker pool: what session.get answers to each task
    frames,      \* worker pool: the local variables of the calls of parse_company
    appended_by, \* worker pool: the threads that appended to companies
    call_args,   \* record builder, parsers, exporter: the arguments of the call under check
    returned     \* record builder, parsers, exporter: what the call returned or raised

vars == <<pc, primary, secondary, result, merge_args, scripts, best, raw_text, extracted,
          id_url, id_ld_json, company_id, page_html, page_url, company,
          entry, config_path, config_files, input_file, settings, urls, futures, companies,
          all_results, fetch_started, exported, exit_code, responses, frames, appended_by,
          call_args, returned>>

mergeVars == <<primary, secondary, result, merge_args>>
ldVars == <<scripts, best>>
curVars == <<raw_text, extracted>>
idVars == <<id_url, id_ld_json, company_id>>
parseVars == <<page_html, page_url, company>>
runEnv == <<entry, config_path, config_files, input_file>>
runState == <<settings, urls, futures, companies, all_results, fetch_started, exported,
              exit_code>>
poolVars == <<responses, frames, appended_by>>
runVars == <<runEnv, runState, poolVars>>
callVars == <<call_args, returned>>


-----------------------------------------------------------------------------
(* Python values *)

PyNone == [t |-> "none"]
PyStr(s) == [t |-> "str", v |-> s]
PyInt(n) == [t |-> "int", v |-> n]
PyFloat(i, f) == [t |-> "float", v |-> <<i, f>>]
PyList(xs) == [t |-> "list", v |-> xs]
PyDict(f) == [t |-> "dict", v |-> f]
Raise(kind) == [t |-> "raise", v |-> kind]

\* x is a raised exception (a field mapping, keyed by field names, is none)
IsRaise(x) == "t" \in DOMAIN x /\ x.t = "raise"

\* the value of a variable that the specification under check does not use
Idle == PyNone

MergeIdle == primary = Idle /\ secondary = Idle /\ result = Idle /\ merge_args = Idle
LdIdle == scripts = Idle /\ best = Idle
CurIdle == raw_text = Idle /\ extracted = Idle
IdIdle == id_url = Idle /\ id_ld_json = Idle /\ company_id = Idle
ParseIdle == page_html = Idle /\ page_url = Idle /\ company = Idle
RunIdle ==
    /\ entry = Idle /\ config_path = Idle /\ config_files = Idle /\ input_file = Idle
    /\ settings = Idle /\ urls = Idle /\ futures = Idle /\ companies = Idle
    /\ all_results = Idle /\ fetch_started = Idle /\ exported = Idle /\ exit_code = Idle
    /\ responses = Idle /\ frames = Idle /\ appended_by = Idle
CallIdle == call_args = Idle /\ returned = Idle

\* Python truthiness (bool(x))
Truthy(x) ==
    CASE x.t = "none" -> FALSE
      [] x.t = "str" -> x.v # <<>>
      [] x.t = "int" -> x.v # 0
      [] x.t = "float" -> x.v # <<0, <<>> >>
      [] x.t = "list" -> x.v # <<>>
      [] x.t = "dict" -> DOMAIN x.v # {}
      [] OTHER -> TRUE

\* a or b
PyOr(a, b) == IF Truthy(a) THEN a ELSE b

\* d.get(k) on a mapping (a function from keys to values)
Get(d, k) == IF k \in DOMAIN d THEN d[k] ELSE PyNone

\* d.get(k, default)
GetDefault(d, k, default) == IF k \in DOMAIN d THEN d[k] ELSE default

\* d[k] = v
Put(d, k, v) == [x \in (DOMAIN d) \cup {k} |-> IF x = k THEN v ELSE d[x]]

EmptyDict == [x \in {} |-> PyNone]

-----------------------------------------------------------------------------
(* Characters and strings *)

Digits == <<"0", "1", "2", "3", "4", "5", "6", "7", "8", "9">>
UpperChars == <<"A", "B", "C", "D", "E", "F", "G", "H", "I", "J", "K", "L", "M",
                "N", "O", "P", "Q", "R", "S", "T", "U", "V", "W", "X", "Y", "Z">>
LowerChars == <<"a", "b", "c", "d", "e", "f", "g", "h", "i", "j", "k", "l", "m",
                "n", "o", "p", "q", "r", "s", "t", "u", "v", "w", "x", "y", "z">>

IsDigit(c) == \E i \in DOMAIN Digits : Digits[i] = c
DigitVal(c) == (CHOOSE i \in DOMAIN Digits : Digits[i] = c) - 1
IsUpper(c) == \E i \in DOMAIN UpperChars : UpperChars[i] = c
IsSpace(c) == c \in {" ", "\t", "\n"}

LowerChar(c) ==
    IF IsUpper(c)
    THEN LowerChars[CHOOSE i \in DOMAIN UpperChars : UpperChars[i] = c]
    ELSE c

\* s.lower()
Lower(s) == [i \in DOMAIN s |-> LowerChar(s[i])]

\* s.replace(c, "")
RemoveChar(s, c) == SelectSeq(s, LAMBDA x : x # c)

\* the first index j >= i at which P stops holding (Len(s) + 1 at the end)
RunEnd(s, i, P(_)) ==
    CHOOSE j \in i..(Len(s) + 1) :
        /\ \A k \in i..(j - 1) : P(s[k])
        /\ (j = Len(s) + 1 \/ ~P(s[j]))

\* the last index j <= i at which P stops holding, scanning backwards (0 at the start)
RunStart(s, i, P(_)) ==
    CHOOSE j \in 0..i :
        /\ \A k \in (j + 1)..i : P(s[k])
        /\ (j = 0 \/ ~P(s[j]))

\* s[i:j] with 1-based inclusive i and exclusive j
Slice(s, i, j) == IF j <= i THEN <<>> ELSE SubSeq(s, i, j - 1)

\* s.strip()
Strip(s) == Slice(s, RunEnd(s, 1, IsSpace), RunStart(s, Len(s), IsSpace) + 1)

\* needle in s
Contains(s, needle) ==
    \E i \in 1..(Len(s) - Len(needle) + 1) :
        SubSeq(s, i, i + Len(needle) - 1) = needle

RECURSIVE ToNat(_)
\* value of a run of decimal digits
ToNat(s) ==
    IF s = <<>> THEN 0
    ELSE 10 * ToNat(SubSeq(s, 1, Len(s) - 1)) + DigitVal(s[Len(s)])

AllDigits(s) == \A i \in DOMAIN s : IsDigit(s[i])

-----------------------------------------------------------------------------
(* data_utils.py *)

\* the variant of the substitution for the pattern \s: a space for every
\* whitespace character, runs kept
SpaceEach(s) == [i \in DOMAIN s |-> IF IsSpace(s[i]) THEN " " ELSE s[i]]

RECURSIVE CollapseWs(_)
\* _whitespace_re.sub(" ", value): every maximal whitespace run becomes one space
CollapseWs(s) ==
    IF s = <<>> THEN <<>>
    ELSE IF IsSpace(s[1])
         THEN <<" ">> \o CollapseWs(Slice(s, RunEnd(s, 1, IsSpace), Len(s) + 1))
         ELSE <<s[1]>> \o CollapseWs(Tail(s))

\* lines 47-50 of clean_text, value stripped
CleanStripped(stripped) ==
    IF stripped = <<>> THEN PyNone ELSE PyStr(CollapseWs(stripped))

\* clean_text: a value without .strip() raises AttributeError
clean_text(value) ==
    IF value = PyNone THEN PyNone
    ELSE IF value.t # "str" THEN Raise("AttributeError")
    ELSE CleanStripped(Strip(value.v))

\* the overwriting variant of the store of merge_dicts
MergeStoreAlways(res, key, value) == Put(res, key, value)

\* lines 125-126 of merge_dicts: store only over a missing or null entry
MergeStore(res, key, value) ==
    IF key \notin DOMAIN res \/ res[key] = PyNone
    THEN Put(res, key, value)
    ELSE res

RECURSIVE MergeLoop(_, _, _)
\* the loop over secondary.items()
MergeLoop(res, sec, keys) ==
    IF keys = {} THEN res
    ELSE LET key == CHOOSE k \in keys : TRUE
         IN  MergeLoop(MergeStore(res, key, sec[key]), sec, keys \ {key})

\* merge_dicts(primary, secondary): result starts as dict(primary), a new mapping
merge_dicts(prim, sec) == MergeLoop(prim, sec, DOMAIN sec)

\* the caller's view of a call of merge_dicts: the returned mapping and the two
\* argument objects afterwards. The stores go to the copy made on line 123, so
\* the argument objects keep their contents.
MergeCall(prim, sec) ==
    [result |-> merge_dicts(prim, sec), primary |-> prim, secondary |-> sec]

RECURSIVE NatToStr(_)
\* str(n) for n >= 0
NatToStr(n) ==
    IF n < 10 THEN <<Digits[n + 1]>>
    ELSE NatToStr(n \div 10) \o <<Digits[(n % 10) + 1]>>

RECURSIVE DropTrailingZeros(_)
\* a run of digits without its trailing zeros
DropTrailingZeros(s) ==
    IF s # <<>> /\ s[Len(s)] = "0"
    THEN DropTrailingZeros(SubSeq(s, 1, Len(s) - 1))
    ELSE s

\* the float with integer part i and fraction digits f (trailing zeros dropped,
\* so that equal numbers are equal values)
MkFloat(i, f) == PyFloat(i, DropTrailingZeros(f))

RECURSIVE Repr(_)
RECURSIVE ReprJoin(_)
RECURSIVE DictRepr(_, _)

\* ", ".join(repr(x) for x in xs)
ReprJoin(xs) ==
    IF xs = <<>> THEN <<>>
    ELSE IF Len(xs) = 1 THEN Repr(xs[1])
    ELSE Repr(xs[1]) \o <<",", " ">> \o ReprJoin(Tail(xs))

\* the items of a mapping as repr shows them (a key is shown as one character,
\* the keys in a fixed order)
DictRepr(d, keys) ==
    IF keys = {} THEN <<>>
    ELSE LET k == CHOOSE x \in keys : TRUE
             item == <<"'", k, "'", ":", " ">> \o Repr(d[k])
         IN  IF keys = {k} THEN item
             ELSE item \o <<",", " ">> \o DictRepr(d, keys \ {k})

\* repr(x). Strings are shown in single quotes (the model's strings hold no
\* quote or backslash).
Repr(x) ==
    CASE x.t = "none" -> <<"N", "o", "n", "e">>
      [] x.t = "str" -> <<"'">> \o x.v \o <<"'">>
      [] x.t = "int" -> IF x.v < 0 THEN <<"-">> \o NatToStr(-x.v) ELSE NatToStr(x.v)
      [] x.t = "float" ->
            NatToStr(x.v[1]) \o <<".">> \o (IF x.v[2] = <<>> THEN <<"0">> ELSE x.v[2])
      [] x.t = "list" -> <<"[">> \o ReprJoin(x.v) \o <<"]">>
      [] x.t = "dict" -> <<"{">> \o DictRepr(x.v, DOMAIN x.v) \o <<"}">>

\* str(x)
str_of(x) == IF x.t = "str" THEN x.v ELSE Repr(x)

\* float(s) from its integer digits ip and what follows them
FloatParts(s, ip, rest) ==
    IF rest = <<>> THEN MkFloat(ToNat(ip), <<>>)
    ELSE IF rest[1] = "." /\ AllDigits(Tail(rest)) /\ (ip # <<>> \/ Tail(rest) # <<>>)
         THEN MkFloat(ToNat(ip), Tail(rest))
    ELSE Raise("ValueError")

\* the text split where its leading digits end
SplitAtDigitsEnd(s, dot) == FloatParts(s, Slice(s, 1, dot), Slice(s, dot, Len(s) + 1))

\* float(s) for a stripped text over digits and ".": digits, digits.digits,
\* digits. or .digits; anything else is a ValueError (the model's texts hold no
\* sign, exponent or underscore)
float_of(s) ==
    IF s = <<>> THEN Raise("ValueError")
    ELSE SplitAtDigitsEnd(s, RunEnd(s, 1, IsDigit))

\* int(s) for a stripped text: a non-empty run of digits, anything else is a
\* ValueError
int_of(s) ==
    IF s # <<>> /\ AllDigits(s) THEN PyInt(ToNat(s)) ELSE Raise("ValueError")

-----------------------------------------------------------------------------
(* data_utils.py: extract_currency_amount *)

IsCurrencySymbol(c) == c \in {"$", "€", "£"}
IsAmountChar(c) == IsDigit(c) \/ c = ","

\* the optional (?:\.[0-9]+) after the run of [0-9,] that ends (exclusive) at j
FractionEnd(s, j) ==
    IF j + 1 <= Len(s) /\ s[j] = "." /\ IsDigit(s[j + 1])
    THEN RunEnd(s, j + 1, IsDigit)
    ELSE j

\* [0-9,]+(?:\.[0-9]+)? matched greedily from position i: the end (exclusive),
\* or 0 when s[i] starts no amount
AmountEnd(s, i) ==
    IF i > Len(s) \/ ~IsAmountChar(s[i]) THEN 0
    ELSE FractionEnd(s, RunEnd(s, i, IsAmountChar))

\* the amount from position w on: <<start, end>> (end exclusive), or <<0, 0>>
AmountFrom(s, w) == IF AmountEnd(s, w) = 0 THEN <<0, 0>> ELSE <<w, AmountEnd(s, w)>>

\* \s* then the amount, from position i
AmountAfterSpace(s, i) == AmountFrom(s, RunEnd(s, i, IsSpace))

NoMatch == [cur |-> PyNone, from |-> 0, to |-> 0]

\* [A-Z]{3} at position i
ThreeCapitalsAt(s, i) == i + 2 <= Len(s) /\ \A k \in i..(i + 2) : IsUpper(s[k])

\* the first of the three attempts that found an amount
FirstMatch(s, i, a3, a1, a0) ==
    IF a3[2] # 0 THEN [cur |-> PyStr(SubSeq(s, i, i + 2)), from |-> a3[1], to |-> a3[2]]
    ELSE IF a1[2] # 0 THEN [cur |-> PyStr(<<s[i]>>), from |-> a1[1], to |-> a1[2]]
    ELSE IF a0[2] # 0 THEN [cur |-> PyNone, from |-> a0[1], to |-> a0[2]]
    ELSE NoMatch

\* the regular expression tried at position i: the alternatives for the
\* optional currency group in the order the engine tries them (three capitals,
\* one symbol, no currency). to = 0 when there is no match at i.
CurrencyMatchAt(s, i) ==
    FirstMatch(s, i,
        IF ThreeCapitalsAt(s, i) THEN AmountAfterSpace(s, i + 3) ELSE <<0, 0>>,
        IF i <= Len(s) /\ IsCurrencySymbol(s[i]) THEN AmountAfterSpace(s, i + 1) ELSE <<0, 0>>,
        AmountAfterSpace(s, i))

\* the match at the least of the positions that have one
LeftmostMatch(s, hits) ==
    IF hits = {} THEN NoMatch
    ELSE CurrencyMatchAt(s, CHOOSE i \in hits : \A j \in hits : i <= j)

\* _currency_re.search(raw): the match at the leftmost position that has one
CurrencySearch(s) ==
    LeftmostMatch(s, {i \in 1..Len(s) : CurrencyMatchAt(s, i).to # 0})

\* lines 72-76: the symbols are mapped to codes
SymbolCode(currency) ==
    IF currency = PyStr(<<"$">>) THEN PyStr(<<"U", "S", "D">>)
    ELSE IF currency = PyStr(<<"€">>) THEN PyStr(<<"E", "U", "R">>)
    ELSE IF currency = PyStr(<<"£">>) THEN PyStr(<<"G", "B", "P">>)
    ELSE currency

\* lines 67-70: float(amount_str), None on ValueError
AmountOrNone(parsed) == IF IsRaise(parsed) THEN PyNone ELSE parsed

\* lines 64-77: the pair built from the match m
FromCurrencyMatch(s, m) ==
    IF m.to = 0 THEN <<PyNone, PyNone>>
    ELSE <<AmountOrNone(float_of(RemoveChar(SubSeq(s, m.from, m.to - 1), ","))),
           SymbolCode(m.cur)>>

\* extract_currency_amount(raw): the pair <<amount, currency>>
extract_currency_amount(raw) ==
    IF ~Truthy(raw) THEN <<PyNone, PyNone>>
    ELSE FromCurrencyMatch(raw.v, CurrencySearch(raw.v))

-----------------------------------------------------------------------------
(* data_utils.py: parse_int_safe, parse_float_safe, safe_get, normalize_list *)

\* except (ValueError, TypeError): return None
NoneOnError(parsed) == IF IsRaise(parsed) THEN PyNone ELSE parsed

\* parse_int_safe(raw)
parse_int_safe(raw) ==
    IF raw = PyNone THEN PyNone
    ELSE IF raw.t = "int" THEN raw
    ELSE NoneOnError(int_of(Strip(RemoveChar(str_of(raw), ","))))

\* parse_float_safe(raw)
parse_float_safe(raw) ==
    IF raw = PyNone THEN PyNone
    ELSE IF raw.t = "int" THEN MkFloat(raw.v, <<>>)
    ELSE IF raw.t = "float" THEN raw
    ELSE NoneOnError(float_of(Strip(RemoveChar(str_of(raw), ","))))

\* safe_get(d, key) with one key
safe_get(d, key) == IF d.t # "dict" THEN PyNone ELSE Get(d.v, key)

\* normalize_list(value); the model has no tuples or sets
normalize_list(value) ==
    IF value = PyNone THEN <<>>
    ELSE IF value.t = "list" THEN value.v
    ELSE <<value>>

-----------------------------------------------------------------------------
(* zoominfo_parser.py: _extract_ld_json *)

S_Organization == <<"O", "r", "g", "a", "n", "i", "z", "a", "t", "i", "o", "n">>
S_Corporation == <<"C", "o", "r", "p", "o", "r", "a", "t", "i", "o", "n">>
S_Person == <<"P", "e", "r", "s", "o", "n">>

\* A script element is modelled by what json.loads makes of its text
\* (script.string or ""): ok = FALSE when the text does not parse (the empty
\* text included), and otherwise the parsed value.
BadScript == [ok |-> FALSE, data |-> PyNone]
GoodScript(data) == [ok |-> TRUE, data |-> data]

\* json.loads(script.string or "")
json_loads(script) == IF script.ok THEN script.data ELSE Raise("JSONDecodeError")

\* candidate.get("@type") in ("Organization", "Corporation")
Qualifies(candidate) ==
    /\ candidate.t = "dict"
    /\ Get(candidate.v, "@type") \in {PyStr(S_Organization), PyStr(S_Corporation)}

\* the variant of the candidate step that keeps the first qualifying descriptor
CandidateStepFirst(cur, candidate) ==
    IF candidate.t # "dict" THEN cur
    ELSE IF Qualifies(candidate) /\ cur = PyDict(EmptyDict) THEN candidate
    ELSE cur

\* lines 189-192: one candidate of a block
CandidateStep(cur, candidate) ==
    IF candidate.t # "dict" THEN cur
    ELSE IF Qualifies(candidate) THEN candidate
    ELSE cur

RECURSIVE ScanCandidates(_, _)
\* lines 188-192: the loop over the candidates of one block
ScanCandidates(cur, candidates) ==
    IF candidates = <<>> THEN cur
    ELSE ScanCandidates(CandidateStep(cur, Head(candidates)), Tail(candidates))

\* lines 183-186: a list is a list of candidates, anything else is one candidate
CandidatesOf(data) == IF data.t = "list" THEN data.v ELSE <<data>>

RECURSIVE ScanScripts(_, _)

\* the variant of the except branch that stops the scan at an unparsable block
SkipBlockStop(cur, rest) == cur

\* lines 180-181: except ... continue
SkipBlock(cur, rest) == ScanScripts(cur, rest)

\* lines 177-192: the loop over the scripts
ScanScripts(cur, rest) ==
    IF rest = <<>> THEN cur
    ELSE LET data == json_loads(Head(rest))
         IN  IF IsRaise(data) THEN SkipBlock(cur, Tail(rest))
             ELSE ScanScripts(ScanCandidates(cur, CandidatesOf(data)), Tail(rest))

\* _extract_ld_json(soup), soup given by its ld+json scripts
extract_ld_json(scr) == ScanScripts(PyDict(EmptyDict), scr)

-----------------------------------------------------------------------------
(* zoominfo_parser.py: _extract_company_id, with urllib.parse.urlparse *)

IsLower(c) == \E i \in DOMAIN LowerChars : LowerChars[i] = c
IsAlpha(c) == IsUpper(c) \/ IsLower(c)
IsSchemeChar(c) == IsAlpha(c) \/ IsDigit(c) \/ c \in {"+", "-", "."}

\* s.find(c, from): the first index >= from that holds a character of C, 0 when none
FindAny(s, C, from) ==
    IF \E k \in from..Len(s) : s[k] \in C
    THEN CHOOSE k \in from..Len(s) : s[k] \in C /\ \A j \in from..(k - 1) : s[j] \notin C
    ELSE 0

\* s.rfind(c): the last index that holds c, 0 when none
RFind(s, c) ==
    IF \E k \in 1..Len(s) : s[k] = c
    THEN CHOOSE k \in 1..Len(s) : s[k] = c /\ \A j \in (k + 1)..Len(s) : s[j] # c
    ELSE 0

\* s up to index i (exclusive), all of s when i = 0
Before(s, i) == IF i = 0 THEN s ELSE SubSeq(s, 1, i - 1)

\* s.split(c, 1)[0]
CutAt(s, c) == Before(s, FindAny(s, {c}, 1))

\* urlsplit: the scheme, when the text before the first ":" at index i is one
SchemeAt(url, i) ==
    IF i > 1 /\ IsAlpha(url[1]) /\ \A k \in 1..(i - 1) : IsSchemeChar(url[k])
    THEN [scheme |-> Lower(SubSeq(url, 1, i - 1)), rest |-> Slice(url, i + 1, Len(url) + 1)]
    ELSE [scheme |-> <<>>, rest |-> url]

SplitScheme(url) == SchemeAt(url, FindAny(url, {":"}, 1))

\* urlsplit: what follows the network location "//..."
NetlocEnd(rest, i) == IF i = 0 THEN <<>> ELSE Slice(rest, i, Len(rest) + 1)

AfterNetloc(rest) ==
    IF Len(rest) >= 2 /\ rest[1] = "/" /\ rest[2] = "/"
    THEN NetlocEnd(rest, FindAny(rest, {"/", "?", "#"}, 3))
    ELSE rest

\* urlparse: the schemes whose last path segment may carry ";parameters"
\* (of urllib's uses_params, those the model's URLs can have)
UsesParams(scheme) == scheme \in {<<>>, <<"h", "t", "t", "p">>, <<"h", "t", "t", "p", "s">>}

\* _splitparams: the path without the parameters of its last segment
SplitParams(path) == Before(path, FindAny(path, {";"}, RFind(path, "/") + 1))

PathOfParts(parts) ==
    IF UsesParams(parts.scheme)
    THEN SplitParams(CutAt(CutAt(AfterNetloc(parts.rest), "#"), "?"))
    ELSE CutAt(CutAt(AfterNetloc(parts.rest), "#"), "?")

\* urlparse(url).path
urlparse_path(url) == PathOfParts(SplitScheme(url))

\* s.rstrip("/")
RStripSlash(s) == SubSeq(s, 1, RunStart(s, Len(s), LAMBDA c : c = "/"))

\* s.split("/")[-1]
LastSegment(s) == Slice(s, RFind(s, "/") + 1, Len(s) + 1)

\* where "$" matches: at the end, or before a newline that ends the text
DollarPos(s) == IF s # <<>> /\ s[Len(s)] = "\n" THEN Len(s) - 1 ELSE Len(s)

\* the run of digits that ends at index e, starting after index j
DigitsBetween(s, j, e) == IF j < e THEN PyStr(SubSeq(s, j + 1, e)) ELSE PyNone

\* re.search(r"(\d+)$", s).group(1), None when there is no match
TrailingDigits(s) == DigitsBetween(s, RunStart(s, DollarPos(s), IsDigit), DollarPos(s))

\* group 1 of "/(\d+)$" given the index j before the trailing run of digits
SlashDigitsFrom(s, j) ==
    IF j >= 1 /\ s[j] = "/" THEN DigitsBetween(s, j, DollarPos(s)) ELSE PyNone

\* re.search(r"/(\d+)$", s).group(1), None when there is no match
SlashDigits(s) == SlashDigitsFrom(s, RunStart(s, DollarPos(s), IsDigit))

\* lines 328-333: the identifier from the URL
IdFromUrl(url) == TrailingDigits(LastSegment(RStripSlash(urlparse_path(url))))

\* the variant of the @id pattern without the leading "/"
IdFromLdAnyDigits(data) ==
    IF Truthy(Get(data.v, "@id")) THEN TrailingDigits(str_of(data.v["@id"])) ELSE PyNone

\* lines 323-326: the identifier from the payload's @id, None when the
\* function goes on to the URL
IdFromLd(data) ==
    IF Truthy(Get(data.v, "@id")) THEN SlashDigits(str_of(data.v["@id"])) ELSE PyNone

\* the first of the two that is not None
FirstId(from_ld, from_url) == IF from_ld # PyNone THEN from_ld ELSE from_url

\* _extract_company_id(url, ld_json); url is a text, ld_json a mapping
extract_company_id(url, data) == FirstId(IdFromLd(data), IdFromUrl(url))

-----------------------------------------------------------------------------
(* zoominfo_parser.py: _parse_from_ld_json *)

\* d[k] = v when cond holds
PutIf(d, cond, k, v) == IF cond THEN Put(d, k, v) ELSE d

\* the elements of a sequence that are truthy: [p for p in xs if p]
TruthyOnes(xs) == SelectSeq(xs, Truthy)

RECURSIVE JoinTexts(_, _)
\* sep.join(xs) for texts xs
JoinTexts(sep, xs) ==
    IF xs = <<>> THEN <<>>
    ELSE IF Len(xs) = 1 THEN xs[1].v
    ELSE xs[1].v \o sep \o JoinTexts(sep, Tail(xs))

\* ", ".join(parts): TypeError when a part is no text
JoinComma(parts) ==
    IF \E i \in DOMAIN parts : parts[i].t # "str" THEN Raise("TypeError")
    ELSE PyStr(JoinTexts(<<",", " ">>, parts))

\* clean_text of a value that may be a raised exception
CleanOrRaise(joined) == IF IsRaise(joined) THEN joined ELSE clean_text(joined)

\* lines 209-218: the headquarters text of an address mapping
AddressText(address) ==
    CleanOrRaise(JoinComma(TruthyOnes(
        << Get(address.v, "streetAddress"), Get(address.v, "addressLocality"),
           Get(address.v, "addressRegion"), Get(address.v, "postalCode"),
           Get(address.v, "addressCountry") >>)))

\* lines 207-218
WithHeadquarters(res, address) ==
    IF address.t # "dict" THEN res
    ELSE IF IsRaise(AddressText(address)) THEN AddressText(address)
    ELSE Put(res, "headquarters", AddressText(address))

\* lines 223-226: the texts among the entries of sameAs
SocialLinks(same_as) == SelectSeq(normalize_list(same_as), LAMBDA link : link.t = "str")

\* lines 229-231: numberOfEmployees or employees
EmployeesSource(data) == PyOr(safe_get(data, "numberOfEmployees"), Get(data.v, "employees"))

\* the variant of lines 243-246 that keeps a revenue already set
RevenueStepFirst(res, lname, pair) ==
    IF Contains(lname, <<"r", "e", "v", "e", "n", "u", "e">>) /\ "revenue" \notin DOMAIN res
    THEN Put(Put(res, "revenue", pair[1]), "revenue_currency", pair[2])
    ELSE res

\* lines 243-246
RevenueStep(res, lname, pair) ==
    IF Contains(lname, <<"r", "e", "v", "e", "n", "u", "e">>)
    THEN Put(Put(res, "revenue", pair[1]), "revenue_currency", pair[2])
    ELSE res

\* lines 247-250
FundingStep(res, lname, pair) ==
    IF Contains(lname, <<"f", "u", "n", "d", "i", "n", "g">>)
    THEN Put(Put(res, "total_funding_amount", pair[1]), "funding_currency", pair[2])
    ELSE res

\* lines 240-250: one property with its name and value
PropStep(res, name, val) ==
    IF ~Truthy(name) THEN res
    ELSE FundingStep(
             RevenueStep(res, Lower(str_of(name)), extract_currency_amount(PyStr(str_of(val)))),
             Lower(str_of(name)), extract_currency_amount(PyStr(str_of(val))))

RECURSIVE PropsLoop(_, _)
\* lines 237-250: prop.get raises AttributeError on an entry that is no mapping
PropsLoop(res, props) ==
    IF props = <<>> THEN res
    ELSE IF Head(props).t # "dict" THEN Raise("AttributeError")
    ELSE PropsLoop(PropStep(res, Get(Head(props).v, "name"), Get(Head(props).v, "value")),
                   Tail(props))

\* lines 235-250
WithAdditionalProps(res, additional_props) ==
    IF IsRaise(res) THEN res
    ELSE IF additional_props.t # "list" THEN res
    ELSE PropsLoop(res, additional_props.v)

\* lines 202-205
LdNames(data) ==
    [name |-> Get(data.v, "name"),
     description |-> Get(data.v, "description"),
     website |-> PyOr(Get(data.v, "url"), Get(data.v, "sameAs"))]

\* the variant of lines 220-232 that stores the descriptor's industry as it
\* is, null when the descriptor has none
WithLdRestSparse(res, data) ==
    IF IsRaise(res) THEN res
    ELSE Put(Put(Put(Put(res,
             "phone_number", Get(data.v, "telephone")),
             "industry", Get(data.v, "industry")),
             "social_media", PyList(SocialLinks(PyOr(Get(data.v, "sameAs"), PyList(<<>>))))),
             "employees", parse_int_safe(EmployeesSource(data)))

\* lines 220-232
WithLdRest(res, data) ==
    IF IsRaise(res) THEN res
    ELSE Put(Put(Put(Put(res,
             "phone_number", Get(data.v, "telephone")),
             "industry", PyList(normalize_list(PyOr(Get(data.v, "industry"), PyList(<<>>))))),
             "social_media", PyList(SocialLinks(PyOr(Get(data.v, "sameAs"), PyList(<<>>))))),
             "employees", parse_int_safe(EmployeesSource(data)))

\* _parse_from_ld_json(data): a mapping, or the exception raised
parse_from_ld_json(data) ==
    IF ~Truthy(data) THEN EmptyDict
    ELSE WithAdditionalProps(
             WithLdRest(WithHeadquarters(LdNames(data), safe_get(data, "address")), data),
             Get(data.v, "additionalProperty"))

-----------------------------------------------------------------------------
(* zoominfo_parser.py: _parse_html_fallbacks.  The parsed page (soup) is given
   by what its queries return: the content of the og:title and description
   meta tags, the href of every <a>, the text nodes, the texts of the elements
   the industry selectors match, and for each address selector the text of its
   first element (None when there is none). *)

\* the first index whose element satisfies P, 0 when none
FirstIndex(xs, P(_)) ==
    IF \E i \in DOMAIN xs : P(xs[i])
    THEN CHOOSE i \in DOMAIN xs : P(xs[i]) /\ \A j \in 1..(i - 1) : ~P(xs[j])
    ELSE 0

\* re.compile(r"^https?://", re.I) matches the href
IsHttpUrl(href) ==
    \/ Len(href) >= 7 /\ Lower(SubSeq(href, 1, 7)) = <<"h", "t", "t", "p", ":", "/", "/">>
    \/ Len(href) >= 8 /\ Lower(SubSeq(href, 1, 8)) = <<"h", "t", "t", "p", "s", ":", "/", "/">>

IsPhoneChar(c) == IsDigit(c) \/ IsSpace(c) \/ c \in {"(", ")", ".", "-"}

\* re.compile(r"\+?\d[\d\s().-]{6,}") is found in the text
HasPhone(text) ==
    \E i \in 1..(Len(text) - 6) :
        IsDigit(text[i]) /\ \A k \in (i + 1)..(i + 6) : IsPhoneChar(text[k])

\* re.compile(r"(employees|employee count)", re.I) is found in the text
MentionsEmployees(text) ==
    Contains(Lower(text), <<"e", "m", "p", "l", "o", "y", "e", "e", "s">>) \/ Contains(Lower(text), <<"e", "m", "p", "l", "o", "y", "e", "e", " ", "c", "o", "u", "n", "t">>)

\* re.search(r"([\d,]+)", node): the first run of digits and commas, <<>> when none
FirstNumberFrom(text, i) ==
    IF i = 0 THEN <<>> ELSE Slice(text, i, RunEnd(text, i, IsAmountChar))

FirstNumber(text) == FirstNumberFrom(text, FirstIndex(text, IsAmountChar))

\* lines 308-312: the first employees text node that holds a number
EmployeesNode(texts) ==
    FirstIndex(texts, LAMBDA node : MentionsEmployees(node) /\ FirstNumber(node) # <<>>)

\* lines 282-289: the non-empty texts of the industry elements
Industries(tags) == SelectSeq(tags, LAMBDA text : text # <<>>)

\* lines 292-302: the first address selector that has an element
AddressNode(nodes) == FirstIndex(nodes, LAMBDA node : node # PyNone)

\* an element of a sequence when the index is one, the default otherwise
At(xs, i, default) == IF i \in DOMAIN xs THEN xs[i] ELSE default

\* _parse_html_fallbacks(soup)
parse_html_fallbacks(soup) ==
    PutIf(PutIf(PutIf(PutIf(PutIf(PutIf(PutIf(EmptyDict,
        Truthy(soup.og_title), "name", soup.og_title),
        Truthy(soup.meta_desc), "description", soup.meta_desc),
        FirstIndex(soup.links, IsHttpUrl) # 0,
            "website", PyStr(At(soup.links, FirstIndex(soup.links, IsHttpUrl), <<>>))),
        FirstIndex(soup.texts, HasPhone) # 0,
            "phone_number", PyStr(Strip(At(soup.texts, FirstIndex(soup.texts, HasPhone), <<>>)))),
        Industries(soup.industry_tags) # <<>>,
            "industry", PyList([i \in DOMAIN Industries(soup.industry_tags) |->
                                   PyStr(Industries(soup.industry_tags)[i])])),
        AddressNode(soup.address_nodes) # 0,
            "headquarters", At(soup.address_nodes, AddressNode(soup.address_nodes), PyNone)),
        EmployeesNode(soup.texts) # 0,
            "employees",
            parse_int_safe(PyStr(FirstNumber(At(soup.texts, EmployeesNode(soup.texts), <<>>)))))

-----------------------------------------------------------------------------
(* zoominfo_parser.py: parse_company and the record builders *)

\* _parse_float_or_none(value)
parse_float_or_none(value) ==
    IF value = PyNone THEN PyNone
    ELSE NoneOnError(float_of(Strip(str_of(value))))

\* the variant without the filter: normalize_list(value) as it is
NormalizedList(value) == PyList(normalize_list(value))

\* [s for s in normalize_list(value) if s]
TruthyList(value) == PyList(TruthyOnes(normalize_list(value)))

\* the entity built from the cleaned sub-fields, or the exception clean_text raised
Entity(fields) ==
    IF \E k \in DOMAIN fields : IsRaise(fields[k]) THEN Raise("AttributeError")
    ELSE PyDict(fields)

\* the list of the entities, or the first exception
Entities(items) ==
    IF \E i \in DOMAIN items : IsRaise(items[i]) THEN Raise("AttributeError")
    ELSE PyList(items)

\* the elements of raw that are mappings, none when raw is no list
MappingItems(value) ==
    IF value.t # "list" THEN <<>> ELSE SelectSeq(value.v, LAMBDA item : item.t = "dict")

\* _parse_leadership(raw)
parse_leadership(value) ==
    Entities([i \in DOMAIN MappingItems(value) |->
        Entity([name |-> clean_text(Get(MappingItems(value)[i].v, "name")),
                title |-> clean_text(Get(MappingItems(value)[i].v, "title")),
                url |-> clean_text(Get(MappingItems(value)[i].v, "url"))])])

\* _parse_tech_stack(raw)
parse_tech_stack(value) ==
    Entities([i \in DOMAIN MappingItems(value) |->
        Entity([company_name |-> clean_text(Get(MappingItems(value)[i].v, "company_name")),
                tech_name |-> clean_text(Get(MappingItems(value)[i].v, "tech_name"))])])

\* _parse_news_items(raw)
parse_news_items(value) ==
    Entities([i \in DOMAIN MappingItems(value) |->
        Entity([title |-> clean_text(Get(MappingItems(value)[i].v, "title")),
                url |-> clean_text(Get(MappingItems(value)[i].v, "url"))])])

\* the variant of line 104 that derives the id from the merged mapping's website
CompanyIdFromWebsite(url, ld_json_data, merged) ==
    extract_company_id(str_of(PyOr(Get(merged, "website"), PyStr(url))), ld_json_data)

\* line 104: id=self._extract_company_id(url, ld_json_data)
CompanyIdOf(url, ld_json_data, merged) == extract_company_id(url, ld_json_data)

\* lines 102-165: the arguments of CompanyRecord(...)
RecordFields(url, ld_json_data, merged) ==
    [url |-> PyStr(url),
     id |-> CompanyIdOf(url, ld_json_data, merged),
     name |-> clean_text(Get(merged, "name")),
     description |-> clean_text(Get(merged, "description")),
     revenue |-> Get(merged, "revenue"),
     revenue_currency |-> Get(merged, "revenue_currency"),
     stock_symbol |-> clean_text(Get(merged, "stock_symbol")),
     website |-> clean_text(Get(merged, "website")),
     employees |-> parse_int_safe(Get(merged, "employees")),
     industry |-> TruthyList(Get(merged, "industry")),
     headquarters |-> clean_text(Get(merged, "headquarters")),
     phone_number |-> clean_text(Get(merged, "phone_number")),
     total_funding_amount |-> Get(merged, "total_funding_amount"),
     most_recent_funding_amount |-> Get(merged, "most_recent_funding_amount"),
     funding_currency |-> Get(merged, "funding_currency"),
     funding_rounds |-> parse_int_safe(Get(merged, "funding_rounds")),
     leadership |-> parse_leadership(Get(merged, "leadership")),
     popular_searches |-> TruthyList(Get(merged, "popular_searches")),
     business_classification_codes |-> TruthyList(Get(merged, "business_classification_codes")),
     total_employees |->
         parse_int_safe(GetDefault(merged, "total_employees", Get(merged, "employees"))),
     c_level_employees |-> parse_int_safe(Get(merged, "c_level_employees")),
     vp_level_employees |-> parse_int_safe(Get(merged, "vp_level_employees")),
     director_level_employees |-> parse_int_safe(Get(merged, "director_level_employees")),
     manager_level_employees |-> parse_int_safe(Get(merged, "manager_level_employees")),
     non_manager_employees |-> parse_int_safe(Get(merged, "non_manager_employees")),
     top_contacts |-> parse_int_safe(Get(merged, "top_contacts")),
     org_chart |-> PyList(normalize_list(Get(merged, "org_chart"))),
     social_media |-> TruthyList(Get(merged, "social_media")),
     ceo_rating |-> parse_float_or_none(Get(merged, "ceo_rating")),
     enps_score |->
         parse_float_or_none(PyOr(Get(merged, "enps_score"), Get(merged, "enps score"))),
     similar_companies |-> TruthyList(Get(merged, "similar_companies")),
     email_formats |-> TruthyList(Get(merged, "email_formats")),
     products_owned |-> TruthyList(Get(merged, "products_owned")),
     tech_stack |-> parse_tech_stack(Get(merged, "tech_stack")),
     recent_scoops |-> PyList(normalize_list(Get(merged, "recent_scoops"))),
     news_and_media |-> parse_news_items(Get(merged, "news_and_media"))]

\* CompanyRecord(...).to_dict(), or the exception an argument raised (every
\* one that can be raised there is clean_text's AttributeError)
RecordOrRaise(fields) ==
    IF \E k \in DOMAIN fields : IsRaise(fields[k]) THEN Raise("AttributeError")
    ELSE PyDict(fields)

\* lines 100-167 of parse_company
BuildRecord(url, ld_json_data, base_data, fallback_data) ==
    IF IsRaise(base_data) THEN base_data
    ELSE RecordOrRaise(RecordFields(url, ld_json_data, merge_dicts(base_data, fallback_data)))

\* lines 97-167 of parse_company
ParseWithLd(soup, url, ld_json_data) ==
    BuildRecord(url, ld_json_data, parse_from_ld_json(ld_json_data), parse_html_fallbacks(soup))

\* parse_company(html, url): the record as a mapping, or the exception raised
parse_company(soup, url) == ParseWithLd(soup, url, extract_ld_json(soup.scripts))

-----------------------------------------------------------------------------
(* runner.py and main.py: configuration, URL list, and the steps of the two
   run loops.  The file system is the set of configuration files that exist
   and the input file [exists, lines]; the answer of the web to one request
   is [ok, text] (text the page, parsed) or the RequestException raised. *)

S_SettingsJson == <<"s", "e", "t", "t", "i", "n", "g", "s", ".", "j", "s", "o", "n">>
S_SettingsExampleJson == <<"s", "e", "t", "t", "i", "n", "g", "s", ".", "e", "x", "a", "m", "p", "l", "e", ".", "j", "s", "o", "n">>

\* runner.py 26-33: the paths load_settings tries, in order
CandidatePaths(settings_path) ==
    IF Truthy(settings_path) THEN <<settings_path.v>>
    ELSE <<S_SettingsJson, S_SettingsExampleJson>>

\* json.load(f) of a configuration file: a mapping that sets no key, so that
\* every setting read by run takes its default
FileSettings == PyDict(EmptyDict)

\* runner.py 35-42: the first candidate that exists is loaded
RECURSIVE LoadFirstExisting(_, _, _)
LoadFirstExisting(candidate_paths, files, i) ==
    IF i > Len(candidate_paths) THEN Raise("FileNotFoundError")
    ELSE IF candidate_paths[i] \in files THEN FileSettings
    ELSE LoadFirstExisting(candidate_paths, files, i + 1)

\* load_settings without the raise of lines 40-42
LoadSettingsOrDefaults(settings_path, files) == FileSettings

\* runner.py load_settings(settings_path)
load_settings(settings_path, files) ==
    LoadFirstExisting(CandidatePaths(settings_path), files, 1)

\* utils_data.py load_settings(custom_path), of which the source holds the
\* first lines of the docstring only: the custom path if provided and
\* existing, else settings.json, else settings.example.json; with no file
\* at all it raises, as load_settings of runner.py does
main_load_settings(custom_path, files) ==
    IF Truthy(custom_path) /\ custom_path.v \in files THEN FileSettings
    ELSE LoadFirstExisting(<<S_SettingsJson, S_SettingsExampleJson>>, files, 1)

\* data_utils.py 22-25 and main.py 51-54: a line is kept, stripped, unless it
\* is blank or a comment
IsUrlLine(line) == Strip(line) # <<>> /\ Strip(line)[1] # "#"

RECURSIVE UrlLines(_, _)
UrlLines(lines, i) ==
    IF i > Len(lines) THEN <<>>
    ELSE IF IsUrlLine(lines[i]) THEN <<Strip(lines[i])>> \o UrlLines(lines, i + 1)
    ELSE UrlLines(lines, i + 1)

\* data_utils.py read_urls_from_file(path): a missing file gives no URL
read_urls_from_file(file) == IF file.exists THEN UrlLines(file.lines, 1) ELSE <<>>

\* main.py read_urls(input_path, logger): a missing file raises
read_urls(file) ==
    IF file.exists THEN PyList(UrlLines(file.lines, 1)) ELSE Raise("FileNotFoundError")

\* runner.py fetch_and_parse_company(url, session, parser, timeout, user_agent),
\* response what session.get answers: every failure is logged and gives None
fetch_and_parse_company(url, response) ==
    IF IsRaise(response) THEN PyNone
    ELSE IF ~response.ok THEN PyNone
    ELSE NoneOnError(parse_company(response.text, url))

\* runner.py 133-135: if result: companies.append(result)
AppendIfTruthy(collected, value) ==
    IF Truthy(value) THEN Append(collected, value) ELSE collected

\* ZoomInfoCompanyScraper.scrape_company(url), which the source does not
\* hold: a failed fetch and a failed extraction reach the caller as exceptions
scrape_company(url, response) ==
    IF IsRaise(response) THEN response
    ELSE IF ~response.ok THEN Raise("HTTPError")
    ELSE parse_company(response.text, url)

\* str(exc): the text of an exception, here its kind
ExcMessage(exc) == PyStr(<<exc.v>>)

\* main.py 97-122: the placeholder appended when scrape_company raised
ErrorPlaceholder(url, exc) ==
    PyDict([url |-> PyStr(url), id |-> PyNone, name |-> PyNone, description |-> PyNone,
            revenue |-> PyNone, revenue_currency |-> PyNone, stock_symbol |-> PyNone,
            website |-> PyNone, employees |-> PyNone, industry |-> PyList(<<>>),
            headquarters |-> PyNone, phone_number |-> PyNone,
            total_funding_amount |-> PyNone, most_recent_funding_amount |-> PyNone,
            funding_currency |-> PyNone, funding_rounds |-> PyNone,
            leadership |-> PyList(<<>>), business_classification_codes |-> PyList(<<>>),
            ceo_rating |-> PyNone, enps_score |-> PyNone, tech_stack |-> PyList(<<>>),
            social_media |-> PyList(<<>>), news_and_media |-> PyList(<<>>),
            error |-> ExcMessage(exc)])

\* main.py 91-123: what one iteration of the loop appends
ResultOrPlaceholder(url, scraped) ==
    IF IsRaise(scraped) THEN ErrorPlaceholder(url, scraped) ELSE scraped

\* runner.py 118-128: one pending task per URL
SubmitAll(url_list) == [i \in 1..Len(url_list) |-> [state |-> "pending", result |-> PyNone]]

\* zoominfo_parser.py 91-100: soup, ld_json_data, base_data and fallback_data
\* are local variables of parse_company; the parser object has no attribute.
\* Every call has a frame of its own: the variant shares one among the calls
FrameShared(worker) == 1

FrameOf(worker) == worker

\* the frame of a call before line 91
NewFrame ==
    [soup |-> PyNone, ld_json_data |-> PyNone, base_data |-> PyNone,
     fallback_data |-> PyNone]

\* lines 91-94: soup = BeautifulSoup(html, ...); ld_json_data = self._extract_ld_json(soup)
FrameAfterLd(soup) ==
    [soup |-> soup, ld_json_data |-> extract_ld_json(soup.scripts), base_data |-> PyNone,
     fallback_data |-> PyNone]

\* lines 97-98: base_data, then fallback_data
FrameAfterSources(frame) ==
    [frame EXCEPT !.base_data = parse_from_ld_json(frame.ld_json_data),
                  !.fallback_data = parse_html_fallbacks(frame.soup)]

\* lines 100-167: the record from the local variables; reading a local
\* variable that no statement has assigned raises UnboundLocalError
FrameRecord(url, frame) ==
    IF frame.base_data = PyNone \/ frame.fallback_data = PyNone
    THEN Raise("UnboundLocalError")
    ELSE BuildRecord(url, frame.ld_json_data, frame.base_data, frame.fallback_data)

\* runner.py 65-71: the response gives a page to parse
GivesPage(response) == ~IsRaise(response) /\ response.ok

\* a task of the pool: where it stands and what it returned
Future(state, value) == [state |-> state, result |-> value]

\* zoominfo_parser.py 37-74: the fields of CompanyRecord
CompanyRecordFields ==
    {"url", "id", "name", "description", "revenue", "revenue_currency", "stock_symbol",
     "website", "employees", "industry", "headquarters", "phone_number",
     "total_funding_amount", "most_recent_funding_amount", "funding_currency",
     "funding_rounds", "leadership", "popular_searches", "business_classification_codes",
     "total_employees", "c_level_employees", "vp_level_employees",
     "director_level_employees", "manager_level_employees", "non_manager_employees",
     "top_contacts", "org_chart", "social_media", "ceo_rating", "enps_score",
     "similar_companies", "email_formats", "products_owned", "tech_stack",
     "recent_scoops", "news_and_media"}

-----------------------------------------------------------------------------

(* outputs/exporters.py: DataExporter._export_csv *)

\* a text inside a JSON string: json.dumps escapes the quote and the
\* backslash (the model's strings hold no control character; with
\* ensure_ascii=False every other character is kept)
RECURSIVE JsonEscape(_)
JsonEscape(s) ==
    IF s = <<>> THEN <<>>
    ELSE IF Head(s) = "\"" THEN <<"\\", "\"">> \o JsonEscape(Tail(s))
    ELSE IF Head(s) = "\\" THEN <<"\\", "\\">> \o JsonEscape(Tail(s))
    ELSE <<Head(s)>> \o JsonEscape(Tail(s))

RECURSIVE JsonText(_)
RECURSIVE JsonJoin(_)
RECURSIVE JsonItems(_, _)

\* the elements of a list as json.dumps writes them, separated by ", "
JsonJoin(xs) ==
    IF xs = <<>> THEN <<>>
    ELSE IF Len(xs) = 1 THEN JsonText(xs[1])
    ELSE JsonText(xs[1]) \o <<",", " ">> \o JsonJoin(Tail(xs))

\* the items of a mapping as json.dumps writes them (a key is one character)
JsonItems(d, keys) ==
    IF keys = {} THEN <<>>
    ELSE IF Cardinality(keys) = 1
         THEN <<"\"", CHOOSE x \in keys : TRUE, "\"", ":", " ">>
                  \o JsonText(d[CHOOSE x \in keys : TRUE])
         ELSE <<"\"", CHOOSE x \in keys : TRUE, "\"", ":", " ">>
                  \o JsonText(d[CHOOSE x \in keys : TRUE]) \o <<",", " ">>
                  \o JsonItems(d, keys \ {CHOOSE x \in keys : TRUE})

\* json.dumps(x, ensure_ascii=False)
JsonText(x) ==
    CASE x.t = "none" -> <<"n", "u", "l", "l">>
      [] x.t = "str" -> <<"\"">> \o JsonEscape(x.v) \o <<"\"">>
      [] x.t = "int" -> Repr(x)
      [] x.t = "float" -> Repr(x)
      [] x.t = "list" -> <<"[">> \o JsonJoin(x.v) \o <<"]">>
      [] x.t = "dict" -> <<"{">> \o JsonItems(x.v, DOMAIN x.v) \o <<"}">>

\* data_utils.to_serializable: json.dumps succeeds on every value of the
\* model (null, text, number, list and mapping of these), so the value is
\* returned as it is
to_serializable(obj) == obj

\* the variant of _format_csv_value that hands every value to the writer as
\* it is
FormatCsvValueRaw(value) == value

\* DataExporter._format_csv_value
format_csv_value(value) ==
    IF value.t \in {"list", "dict"} THEN PyStr(JsonText(to_serializable(value)))
    ELSE value

\* the text csv.writer makes of a field: nothing for None, the text of a
\* text, str() of any other value
CsvFieldText(value) ==
    IF value.t = "none" THEN <<>>
    ELSE IF value.t = "str" THEN value.v
    ELSE str_of(value)

\* a text with every quote doubled
RECURSIVE DoubleQuotes(_)
DoubleQuotes(s) ==
    IF s = <<>> THEN <<>>
    ELSE IF Head(s) = "\"" THEN <<"\"", "\"">> \o DoubleQuotes(Tail(s))
    ELSE <<Head(s)>> \o DoubleQuotes(Tail(s))

\* csv.writer of the excel dialect (QUOTE_MINIMAL): a field with a comma, a
\* quote or a line end is written between quotes, its quotes doubled
CsvQuote(s) ==
    IF \E i \in DOMAIN s : s[i] \in {",", "\"", "\r", "\n"}
    THEN <<"\"">> \o DoubleQuotes(s) \o <<"\"">>
    ELSE s

RECURSIVE CsvJoin(_)
\* the written fields of a row, separated by commas
CsvJoin(fields) ==
    IF fields = <<>> THEN <<>>
    ELSE IF Len(fields) = 1 THEN CsvQuote(fields[1])
    ELSE CsvQuote(fields[1]) \o <<",">> \o CsvJoin(Tail(fields))

\* writer.writerow: one line of the file, without its "\r\n" (a row of one
\* empty field is written as two quotes)
CsvLine(fields) ==
    IF fields = <<<<>>>> THEN <<"\"", "\"">> ELSE CsvJoin(fields)

\* the characters of the record keys, in code point order
KeyAlphabet ==
    <<"_", "a", "b", "c", "d", "e", "f", "g", "h", "i", "j", "k", "l", "m",
      "n", "o", "p", "q", "r", "s", "t", "u", "v", "w", "x", "y", "z">>

\* ord(c), up to a shift
CodeOf(c) == CHOOSE i \in DOMAIN KeyAlphabet : KeyAlphabet[i] = c

RECURSIVE TextLess(_, _)
\* a < b for texts: by the first character that differs, a prefix first
TextLess(a, b) ==
    IF b = <<>> THEN FALSE
    ELSE IF a = <<>> THEN TRUE
    ELSE IF Head(a) = Head(b) THEN TextLess(Tail(a), Tail(b))
    ELSE CodeOf(Head(a)) < CodeOf(Head(b))

\* the characters of the keys the exported records have
KeySpelling ==
    [industry |-> <<"i", "n", "d", "u", "s", "t", "r", "y">>,
     revenue |-> <<"r", "e", "v", "e", "n", "u", "e">>,
     revenue_currency |-> <<"r", "e", "v", "e", "n", "u", "e", "_", "c", "u", "r", "r", "e", "n", "c", "y">>,
     url |-> <<"u", "r", "l">>]

RECURSIVE sorted_keys(_)
\* sorted(keys)
sorted_keys(keys) ==
    IF keys = {} THEN <<>>
    ELSE <<CHOOSE k \in keys : \A o \in keys \ {k} : TextLess(KeySpelling[k], KeySpelling[o])>>
             \o sorted_keys(keys \ {CHOOSE k \in keys :
                                       \A o \in keys \ {k} : TextLess(KeySpelling[k], KeySpelling[o])})

\* lines 61-63: the sorted union of the keys of all records
HeaderKeys(recs) == sorted_keys(UNION {DOMAIN recs[i] : i \in DOMAIN recs})

\* lines 73-77: the fields of one record under the header, as written
CsvRow(rec, header_keys) ==
    [j \in DOMAIN header_keys |-> CsvFieldText(format_csv_value(Get(rec, header_keys[j])))]

\* writer.writeheader()
CsvHeader(header_keys) == [j \in DOMAIN header_keys |-> KeySpelling[header_keys[j]]]

NoFile == [t |-> "nofile"]
CsvFile(lines) == [t |-> "file", lines |-> lines]

\* DataExporter._export_csv: the lines of the file it writes, no file for
\* an empty list
export_csv(recs) ==
    IF recs = <<>> THEN NoFile
    ELSE CsvFile(<<CsvLine(CsvHeader(HeaderKeys(recs)))>>
                     \o [i \in DOMAIN recs |-> CsvLine(CsvRow(recs[i], HeaderKeys(recs)))])

-----------------------------------------------------------------------------
(* Specification of merge_dicts over all pairs of small mappings *)

MaxKeys == 2

MergeKeyPool == <<"name", "employees", "industry", "website">>
MergeKeys == {MergeKeyPool[i] : i \in 1..MaxKeys}
MergeValues == {PyNone, PyStr(<<"a">>), PyInt(0), PyList(<<>>)}

Mappings(K, V) == UNION {[D -> V] : D \in SUBSET K}

InitMerge ==
    /\ pc = "merge_input"
    /\ primary \in Mappings(MergeKeys, MergeValues)
    /\ secondary \in Mappings(MergeKeys, MergeValues)
    /\ result = Idle
    /\ merge_args = <<primary, secondary>>
    /\ LdIdle /\ CurIdle /\ IdIdle /\ ParseIdle /\ RunIdle /\ CallIdle

DoMerge ==
    /\ pc = "merge_input"
    /\ LET call == MergeCall(primary, secondary)
       IN  /\ result' = call.result
           /\ primary' = call.primary
           /\ secondary' = call.secondary
    /\ pc' = "merge_done"
    /\ UNCHANGED <<merge_args, ldVars, curVars, idVars, parseVars, runVars, callVars>>

NextMerge == DoMerge

SpecMerge == InitMerge /\ [][NextMerge]_vars

\* C1: after merge_dicts(primary, secondary), for every key k the result holds
\* primary[k] when primary[k] is present and non-null and secondary.get(k)
\* otherwise (the key being absent when neither mapping has it); both argument
\* mappings still hold what they held when passed in.
C1_MergePrefersPrimary ==
    pc = "merge_done" =>
        LET prim == merge_args[1]
            sec == merge_args[2]
        IN  /\ primary = prim /\ secondary = sec
            /\ DOMAIN result = (DOMAIN prim) \cup (DOMAIN sec)
            /\ \A k \in MergeKeys :
                  IF k \in DOMAIN prim /\ prim[k] # PyNone
                  THEN k \in DOMAIN result /\ result[k] = prim[k]
                  ELSE Get(result, k) = Get(sec, k)

\* C1 witness: a merge where one key keeps primary's non-null value although
\* secondary holds another non-null value, and another key is filled from secondary
C1_Witness ==
    /\ pc = "merge_done"
    /\ \E k \in DOMAIN primary \cap DOMAIN secondary :
          /\ primary[k] # PyNone /\ secondary[k] # PyNone
          /\ secondary[k] # primary[k] /\ result[k] = primary[k]
    /\ \E k \in DOMAIN secondary :
          /\ Get(primary, k) = PyNone /\ secondary[k] # PyNone
          /\ result[k] = secondary[k]

-----------------------------------------------------------------------------
(* Specification of _extract_ld_json over all short sequences of blocks *)

MaxBlocks == 2
MaxCands == 2

Descriptor(type, name) == PyDict(("@type" :> PyStr(type)) @@ ("name" :> PyStr(name)))

\* two qualifying descriptors, one of another type, and a candidate that is no mapping
LdCandidates ==
    { Descriptor(S_Organization, <<"a">>), Descriptor(S_Corporation, <<"b">>),
      Descriptor(S_Person, <<"c">>), PyStr(<<"x">>) }

SeqsUpTo(S, n) == UNION {[1..k -> S] : k \in 0..n}

LdBlocks ==
    {BadScript}
        \cup {GoodScript(c) : c \in LdCandidates}
        \cup {GoodScript(PyList(l)) : l \in SeqsUpTo(LdCandidates, MaxCands)}

InitLd ==
    /\ pc = "ld_input"
    /\ scripts \in SeqsUpTo(LdBlocks, MaxBlocks)
    /\ best = Idle
    /\ MergeIdle /\ CurIdle /\ IdIdle /\ ParseIdle /\ RunIdle /\ CallIdle

DoExtractLd ==
    /\ pc = "ld_input"
    /\ best' = extract_ld_json(scripts)
    /\ pc' = "ld_done"
    /\ UNCHANGED <<scripts, mergeVars, curVars, idVars, parseVars, runVars, callVars>>

NextLd == DoExtractLd

SpecLd == InitLd /\ [][NextLd]_vars

RECURSIVE FlattenBlocks(_)
\* the candidates of the parsable blocks in scan order: block order, then
\* position within a block
FlattenBlocks(scr) ==
    IF scr = <<>> THEN <<>>
    ELSE (IF Head(scr).ok THEN CandidatesOf(Head(scr).data) ELSE <<>>)
             \o FlattenBlocks(Tail(scr))

IsOrgDescriptor(c) ==
    /\ c.t = "dict"
    /\ "@type" \in DOMAIN c.v
    /\ c.v["@type"] \in {PyStr(S_Organization), PyStr(S_Corporation)}

\* C3: the descriptor returned is the last one in scan order whose type tag is
\* Organization or Corporation, and the empty mapping when there is none.
C3_LastQualifyingWins ==
    pc = "ld_done" =>
        LET flat == FlattenBlocks(scripts)
            Q == {i \in DOMAIN flat : IsOrgDescriptor(flat[i])}
        IN  IF Q = {} THEN best = PyDict(EmptyDict)
            ELSE best = flat[CHOOSE i \in Q : \A j \in Q : j <= i]

\* C3 witness: two different qualifying descriptors in different blocks, the
\* later one returned
C3_Witness ==
    /\ pc = "ld_done"
    /\ \E i, j \in DOMAIN scripts :
          /\ i < j
          /\ scripts[i].ok /\ scripts[j].ok
          /\ IsOrgDescriptor(scripts[i].data)
          /\ scripts[j].data.t = "list" /\ Len(scripts[j].data.v) = 2
          /\ IsOrgDescriptor(scripts[j].data.v[1])
          /\ IsOrgDescriptor(scripts[j].data.v[2])
          /\ scripts[j].data.v[1] # scripts[j].data.v[2]
          /\ best = scripts[j].data.v[2]
          /\ best # scripts[i].data

\* C4: the descriptor returned equals the one returned for the same sequence
\* of blocks with the unparsable blocks removed.
C4_UnparsableBlocksSkipped ==
    pc = "ld_done" =>
        best = extract_ld_json(SelectSeq(scripts, LAMBDA b : b.ok))

\* C4 witness: an unparsable block followed by a block whose qualifying
\* descriptor is the one returned
C4_Witness ==
    /\ pc = "ld_done"
    /\ \E i, j \in DOMAIN scripts :
          /\ i < j
          /\ ~scripts[i].ok
          /\ scripts[j].ok /\ IsOrgDescriptor(scripts[j].data)
          /\ best = scripts[j].data

-----------------------------------------------------------------------------
(* Specification of extract_currency_amount over short texts and the texts of
   the documentation *)

MaxCurLen == 4

CurrencyAlphabet == {"$", "U", "5", ",", ".", " "}

S_Dollar5M == <<"$", "5", ",", "0", "0", "0", ",", "0", "0", "0">>
S_5M_EUR == <<"5", ",", "0", "0", "0", ",", "0", "0", "0", " ", "E", "U", "R">>
S_5M_USD == <<"5", ",", "0", "0", "0", ",", "0", "0", "0", " ", "U", "S", "D">>
S_EUR_5M == <<"E", "U", "R", " ", "5", ",", "0", "0", "0", ",", "0", "0", "0">>

CurrencyTexts ==
    SeqsUpTo(CurrencyAlphabet, MaxCurLen)
        \cup {S_Dollar5M, S_5M_EUR, S_5M_USD, S_EUR_5M, <<"N", "o", "n", "e">>, <<"£", "1", ".", "5", "0">>, <<"€", " ", "2", "0">>}

InitCur ==
    /\ pc = "cur_input"
    /\ raw_text \in {PyStr(s) : s \in CurrencyTexts}
    /\ extracted = Idle
    /\ MergeIdle /\ LdIdle /\ IdIdle /\ ParseIdle /\ RunIdle /\ CallIdle

DoExtractCurrency ==
    /\ pc = "cur_input"
    /\ extracted' = extract_currency_amount(raw_text)
    /\ pc' = "cur_done"
    /\ UNCHANGED <<raw_text, mergeVars, ldVars, idVars, parseVars, runVars, callVars>>

NextCur == DoExtractCurrency

SpecCur == InitCur /\ [][NextCur]_vars

\* C8: the amount comes back with its thousands separators removed and with the
\* currency code, for a leading symbol ("$5,000,000" gives (5000000.0, "USD"))
\* and for a trailing three-letter code ("5,000,000 EUR" gives (5000000.0,
\* "EUR")); a null amount is never paired with a non-null currency.
C8_CurrencyExtraction ==
    pc = "cur_done" =>
        /\ raw_text = PyStr(S_Dollar5M) => extracted = <<MkFloat(5000000, <<>>), PyStr(<<"U", "S", "D">>)>>
        /\ raw_text = PyStr(S_5M_EUR) => extracted = <<MkFloat(5000000, <<>>), PyStr(<<"E", "U", "R">>)>>
        /\ extracted[1] = PyNone => extracted[2] = PyNone

\* C8, the leading-symbol half alone, which the code satisfies
C8_LeadingSymbol ==
    pc = "cur_done" /\ raw_text = PyStr(S_Dollar5M) =>
        extracted = <<MkFloat(5000000, <<>>), PyStr(<<"U", "S", "D">>)>>

\* C8, the trailing-code half alone
C8_TrailingCode ==
    pc = "cur_done" /\ raw_text = PyStr(S_5M_EUR) =>
        extracted = <<MkFloat(5000000, <<>>), PyStr(<<"E", "U", "R">>)>>

\* C8, the pairing half alone
C8_NullAmountNullCurrency ==
    pc = "cur_done" => (extracted[1] = PyNone => extracted[2] = PyNone)

-----------------------------------------------------------------------------
(* Specification of _extract_company_id over short paths and @id values *)

MaxPathLen == 4
MaxIdLen == 3

S_UrlPrefix == <<"h", "t", "t", "p", "s", ":", "/", "/", "z", ".", "c", "o">>
PathAlphabet == {"/", "c", "1", "2"}
UrlSuffixes == {<<>>, <<"?", "3">>}

IdUrls ==
    {S_UrlPrefix \o p \o q : p \in SeqsUpTo(PathAlphabet, MaxPathLen), q \in UrlSuffixes}
        \cup {<<"z", ".", "c", "o", "/", "c", "/", "1", "2">>, <<"/", "c", ";", "3", "/", "1", "2">>, <<"c", "1", ":", "/", "1", "2", ";", "3">>, <<"h", "t", "t", "p", "s", ":", "/", "/", "z", ".", "c", "o", "/", "c", "/", "1", "2", ";", "3">>, <<"h", "t", "t", "p", "s", ":", "/", "/", "z", ".", "c", "o", "/", "c", "-", "1", "2", "#", "3">>, <<>>}

IdAlphabet == {"/", "a", "7"}

AtIds ==
    {PyStr(s) : s \in SeqsUpTo(IdAlphabet, MaxIdLen)}
        \cup {PyInt(0), PyInt(78), PyStr(<<"/", "7", "8", "\n">>), PyStr(<<"a", "7", "\n">>)}

IdPayloads ==
    {PyDict(EmptyDict)}
        \cup {PyDict(("@type" :> PyStr(S_Organization)) @@ ("@id" :> i)) : i \in AtIds}

InitId ==
    /\ pc = "id_input"
    /\ id_url \in IdUrls
    /\ id_ld_json \in IdPayloads
    /\ company_id = Idle
    /\ MergeIdle /\ LdIdle /\ CurIdle /\ ParseIdle /\ RunIdle /\ CallIdle

DoExtractId ==
    /\ pc = "id_input"
    /\ company_id' = extract_company_id(id_url, id_ld_json)
    /\ pc' = "id_done"
    /\ UNCHANGED <<id_url, id_ld_json, mergeVars, ldVars, curVars, parseVars, runVars, callVars>>

NextId == DoExtractId

SpecId == InitId /\ [][NextId]_vars

\* the longest run of digits that ends the text
DigitSuffix(s) ==
    LET n == CHOOSE k \in 0..Len(s) :
                 /\ \A i \in (Len(s) - k + 1)..Len(s) : IsDigit(s[i])
                 /\ (k = Len(s) \/ ~IsDigit(s[Len(s) - k]))
    IN  SubSeq(s, Len(s) - n + 1, Len(s))

\* the segments of a path between "/", in order
PathSegments(path) ==
    LET cuts == <<0>> \o SelectSeq([i \in 1..Len(path) |-> IF path[i] = "/" THEN i ELSE 0],
                                  LAMBDA i : i # 0) \o <<Len(path) + 1>>
    IN  [k \in 1..(Len(cuts) - 1) |-> Slice(path, cuts[k] + 1, cuts[k + 1])]

\* the last segment that is not empty, the empty text when every segment is
LastNonEmptySegment(path) ==
    LET segs == PathSegments(path)
        ne == {k \in DOMAIN segs : segs[k] # <<>>}
    IN  IF ne = {} THEN <<>> ELSE segs[CHOOSE k \in ne : \A j \in ne : j <= k]

\* the identifier the URL gives: the digits that end the last non-empty
\* segment of its path, null when it ends in none
UrlDigits(url) ==
    LET d == DigitSuffix(LastNonEmptySegment(urlparse_path(url)))
    IN  IF d = <<>> THEN PyNone ELSE PyStr(d)

\* the text of the payload's @id, the empty text when it has none (or a falsy one)
AtIdText(data) ==
    IF "@id" \in DOMAIN data.v /\ Truthy(data.v["@id"]) THEN str_of(data.v["@id"]) ELSE <<>>

\* the text without the one newline that may end it
ChompNewline(s) ==
    IF s # <<>> /\ s[Len(s)] = "\n" THEN SubSeq(s, 1, Len(s) - 1) ELSE s

\* C5 as stated: an @id that ends in digits gives its trailing run of digits;
\* otherwise the URL's last non-empty path segment gives its trailing run of
\* digits; otherwise the id is null.
C5_IdFromTrailingDigits ==
    pc = "id_done" =>
        IF DigitSuffix(AtIdText(id_ld_json)) # <<>>
        THEN company_id = PyStr(DigitSuffix(AtIdText(id_ld_json)))
        ELSE company_id = UrlDigits(id_url)

\* C5 amended: the @id gives the id only when its text ends in "/" followed by
\* digits and nothing else (one final newline aside), and then the id is those
\* digits; in every other case, an @id that ends in digits after another
\* character included, the id is the URL's, as stated.
C5_IdFromSlashDigits ==
    pc = "id_done" =>
        LET text == ChompNewline(AtIdText(id_ld_json))
            d == DigitSuffix(text)
        IN  IF d # <<>> /\ Len(text) > Len(d) /\ text[Len(text) - Len(d)] = "/"
            THEN company_id = PyStr(d)
            ELSE company_id = UrlDigits(id_url)

\* C5 witness: one payload whose @id ends in "/" and digits gives those digits
\* although the URL ends in other digits
C5_Witness ==
    /\ pc = "id_done"
    /\ Get(id_ld_json.v, "@id") = PyStr(<<"a", "/", "7">>)
    /\ UrlDigits(id_url) = PyStr(<<"1", "2">>)
    /\ company_id = PyStr(<<"7">>)

\* C5 witness of the fallback: an @id that ends in digits after a letter, the
\* id taken from the URL
C5_WitnessFallback ==
    /\ pc = "id_done"
    /\ Get(id_ld_json.v, "@id") = PyStr(<<"a", "7">>)
    /\ company_id = PyStr(<<"1", "2">>)

-----------------------------------------------------------------------------
(* Specification of parse_company over pages whose descriptor fields take the
   shapes JSON allows and whose heuristic content varies *)

NoAddressNodes == <<PyNone, PyNone, PyNone, PyNone>>

\* a page without scripts and without anything the heuristics find
BarePage ==
    [scripts |-> <<>>, og_title |-> PyNone, meta_desc |-> PyNone, links |-> <<>>,
     texts |-> <<>>, industry_tags |-> <<>>, address_nodes |-> NoAddressNodes]

\* what the heuristic extractor reads from a page: everything but the scripts
HeuristicContents ==
    { [og_title |-> PyNone, meta_desc |-> PyNone, links |-> <<>>, texts |-> <<>>,
       industry_tags |-> <<>>, address_nodes |-> NoAddressNodes],
      [og_title |-> PyStr(<<"A", "c", "m", "e", " ", "C", "o", "r", "p">>), meta_desc |-> PyStr(<<"d">>),
       links |-> <<<<"/", "x">>, <<"h", "t", "t", "p", ":", "/", "/", "w", "/", "9">>>>,
       texts |-> <<<<" ", "+", "1", " ", "5", "5", "5", "-", "1", "2", "3", "4", " ">>, <<"1", "2", " ", "e", "m", "p", "l", "o", "y", "e", "e", "s">>>>,
       industry_tags |-> <<<<"T", "e", "c", "h">>, <<>> >>,
       address_nodes |-> <<PyNone, PyStr(<<"H", "Q", " ", " ", "1">>), PyNone, PyStr(<<"x">>)>>],
      [og_title |-> PyStr(<<"B">>), meta_desc |-> PyNone,
       links |-> <<<<"H", "T", "T", "P", "S", ":", "/", "/", "v", "/", "8">>>>,
       texts |-> <<<<"o", "u", "r", " ", "e", "m", "p", "l", "o", "y", "e", "e", "s">>, <<"1", ",", "2", "3", "4", " ", "E", "m", "p", "l", "o", "y", "e", "e", "s">>>>,
       industry_tags |-> <<>>, address_nodes |-> NoAddressNodes] }

\* the page with the scripts scr and the heuristic content h
Page(scr, h) ==
    [scripts |-> scr, og_title |-> h.og_title, meta_desc |-> h.meta_desc, links |-> h.links,
     texts |-> h.texts, industry_tags |-> h.industry_tags, address_nodes |-> h.address_nodes]

NameShapes == {PyNone, PyStr(<<"A", "c", "m", "e">>), PyInt(5)}
UrlShapes == {PyNone, PyStr(<<"h", "t", "t", "p", ":", "/", "/", "a">>)}
SameAsShapes == {PyNone, PyStr(<<"h", "t", "t", "p", ":", "/", "/", "s">>), PyList(<<PyStr(<<"h", "t", "t", "p", ":", "/", "/", "s">>), PyInt(3)>>)}
EmployeeCountShapes == {PyNone, PyInt(0), PyInt(50), PyStr(<<"1", ",", "2", "3", "4">>)}
EmployeesShapes == {PyNone, PyInt(7)}
PropsShapes ==
    { PyNone,
      PyList(<<PyDict([name |-> PyStr(<<"A", "n", "n", "u", "a", "l", " ", "R", "e", "v", "e", "n", "u", "e">>), value |-> PyStr(<<"$", "5">>)])>>),
      PyList(<<PyStr(<<"x">>)>>) }
AtIdShapes == {PyNone, PyStr(<<"u", "/", "7">>)}
AddressShapes ==
    { PyNone,
      PyDict([streetAddress |-> PyStr(<<"1", " ", "M", "a", "i", "n">>), addressCountry |-> PyStr(<<"U", "S">>)]),
      PyDict([streetAddress |-> PyStr(<<"1", " ", "M", "a", "i", "n">>), postalCode |-> PyInt(5)]) }

OrgDescriptor(name, url, same_as, count, employees, props, at_id, address) ==
    PyDict(("@type" :> PyStr(S_Organization)) @@ ("@id" :> at_id) @@ ("name" :> name)
           @@ ("url" :> url) @@ ("sameAs" :> same_as) @@ ("numberOfEmployees" :> count)
           @@ ("employees" :> employees) @@ ("additionalProperty" :> props)
           @@ ("address" :> address))

OrgDescriptors ==
    { OrgDescriptor(n, u, s, c, e, p, i, a) :
        n \in NameShapes, u \in UrlShapes, s \in SameAsShapes, c \in EmployeeCountShapes,
        e \in EmployeesShapes, p \in PropsShapes, i \in AtIdShapes, a \in AddressShapes }

ParseScripts ==
    {<<>>, <<BadScript>>, <<GoodScript(Descriptor(S_Person, <<"c">>))>>}
        \cup {<<GoodScript(d)>> : d \in OrgDescriptors}

ParseUrls == {<<"h", "t", "t", "p", "s", ":", "/", "/", "z", ".", "c", "o", "/", "c", "/", "1", "2">>, <<"h", "t", "t", "p", "s", ":", "/", "/", "z", ".", "c", "o", "/", "c">>}

InitParse ==
    /\ pc = "parse_input"
    /\ page_html \in {Page(scr, h) : scr \in ParseScripts, h \in HeuristicContents}
    /\ page_url \in ParseUrls
    /\ company = Idle
    /\ MergeIdle /\ LdIdle /\ CurIdle /\ IdIdle /\ RunIdle /\ CallIdle

DoParseCompany ==
    /\ pc = "parse_input"
    /\ company' = parse_company(page_html, page_url)
    /\ pc' = "parse_done"
    /\ UNCHANGED <<page_html, page_url, mergeVars, ldVars, curVars, idVars, runVars, callVars>>

NextParse == DoParseCompany

SpecParse == InitParse /\ [][NextParse]_vars

\* C2: parse_company raises for no page content: it returns a record.
C2_NeverRaises == pc = "parse_done" => ~IsRaise(company)

\* C6: the id of the record is the id of every record extracted from the same
\* URL and the same scripts with other heuristic content.
C6_IdIgnoresHeuristics ==
    pc = "parse_done" /\ ~IsRaise(company) =>
        \A h \in HeuristicContents :
            LET other == parse_company(Page(page_html.scripts, h), page_url)
            IN  ~IsRaise(other) => other.v.id = company.v.id

\* C6 witness: a record with a non-null id whose name came from the heuristics,
\* and other heuristic content for which the record differs
C6_Witness ==
    /\ pc = "parse_done" /\ ~IsRaise(company)
    /\ company.v.id # PyNone
    /\ company.v.name = PyStr(<<"A", "c", "m", "e", " ", "C", "o", "r", "p">>)
    /\ company.v.website = PyStr(<<"h", "t", "t", "p", ":", "/", "/", "w", "/", "9">>)
    /\ \E h \in HeuristicContents :
          parse_company(Page(page_html.scripts, h), page_url) # company

\* the descriptor the structured-data extractor selects on the page
WinningDescriptor == extract_ld_json(page_html.scripts)

\* C7: when the winning descriptor's numberOfEmployees is 0, the record's
\* employees field is 0.
C7_ZeroEmployeesKept ==
    pc = "parse_done" /\ ~IsRaise(company)
        /\ Get(WinningDescriptor.v, "numberOfEmployees") = PyInt(0)
        => company.v.employees = PyInt(0)

-----------------------------------------------------------------------------
(* Specification of the two run loops over every small file system, input
   file and sequence of answers of the web *)

MaxLines == 2

S_CustomJson == <<"c", ".", "j", "s", "o", "n">>
S_UrlA == <<"h", "t", "t", "p", "s", ":", "/", "/", "z", ".", "c", "o", "/", "c", "/", "1", "2">>
S_UrlB == <<"h", "t", "t", "p", "s", ":", "/", "/", "z", ".", "c", "o", "/", "c">>

ConfigPaths == {PyNone, PyStr(S_CustomJson)}
ConfigFileSets == SUBSET {S_CustomJson, S_SettingsJson, S_SettingsExampleJson}

\* the lines of an input file: two URLs, one of them padded, a blank line and
\* a comment
InputLines == {S_UrlA, <<" ">> \o S_UrlB \o <<" ">>, <<" ">>, <<" ", "#", "c">>}
InputFiles ==
    {[exists |-> FALSE, lines |-> <<>>]}
        \cup {[exists |-> TRUE, lines |-> ls] : ls \in SeqsUpTo(InputLines, MaxLines)}

\* a page from which parse_company builds a record, and one on which it raises
GoodPage ==
    Page(<<GoodScript(OrgDescriptor(PyStr(<<"A", "c", "m", "e">>), PyNone, PyNone, PyNone, PyNone,
                                    PyNone, PyNone, PyNone))>>, BarePage)
RaisingPage ==
    Page(<<GoodScript(OrgDescriptor(PyInt(5), PyNone, PyNone, PyNone, PyNone, PyNone,
                                    PyNone, PyNone))>>, BarePage)

\* what one request can give: a page, an HTTP error status, a network error
Responses ==
    {[ok |-> TRUE, text |-> GoodPage], [ok |-> TRUE, text |-> RaisingPage],
     [ok |-> FALSE, text |-> BarePage], Raise("RequestException")}

InitRun ==
    /\ pc = "run_start"
    /\ entry \in {"runner", "main"}
    /\ config_path \in ConfigPaths
    /\ config_files \in ConfigFileSets
    /\ input_file \in InputFiles
    /\ settings = Idle
    /\ urls = <<>>
    /\ futures = <<>>
    /\ companies = <<>>
    /\ all_results = <<>>
    /\ fetch_started = {}
    /\ exported = PyNone
    /\ exit_code = Idle
    /\ responses = Idle /\ frames = Idle /\ appended_by = Idle
    /\ MergeIdle /\ LdIdle /\ CurIdle /\ IdIdle /\ ParseIdle /\ CallIdle

\* runner.py 85 and 169-174: load_settings; main() turns its FileNotFoundError
\* into exit code 1
RunnerLoadSettings ==
    /\ pc = "run_start" /\ entry = "runner"
    /\ settings' = load_settings(config_path, config_files)
    /\ pc' = IF IsRaise(settings') THEN "run_exit" ELSE "settings_loaded"
    /\ exit_code' = IF IsRaise(settings') THEN PyInt(1) ELSE exit_code
    /\ UNCHANGED <<runEnv, urls, futures, companies, all_results, fetch_started, exported,
                   poolVars,
                   mergeVars, ldVars, curVars, idVars, parseVars, callVars>>

\* runner.py 105-128: read the URLs; none: return 1; else one task per URL
RunnerReadUrls ==
    /\ pc = "settings_loaded" /\ entry = "runner"
    /\ urls' = read_urls_from_file(input_file)
    /\ futures' = SubmitAll(urls')
    /\ pc' = IF urls' = <<>> THEN "run_exit" ELSE "pool"
    /\ exit_code' = IF urls' = <<>> THEN PyInt(1) ELSE exit_code
    /\ UNCHANGED <<runEnv, settings, companies, all_results, fetch_started, exported,
                   poolVars,
                   mergeVars, ldVars, curVars, idVars, parseVars, callVars>>

\* a worker thread runs fetch_and_parse_company for one pending task
WorkerRun ==
    /\ pc = "pool"
    /\ \E i \in DOMAIN futures, response \in Responses :
          /\ futures[i].state = "pending"
          /\ futures' = [futures EXCEPT ![i] =
                            [state |-> "done",
                             result |-> fetch_and_parse_company(urls[i], response)]]
          /\ fetch_started' = fetch_started \cup {i}
    /\ UNCHANGED <<pc, runEnv, settings, urls, companies, all_results, exported, exit_code,
                   poolVars,
                   mergeVars, ldVars, curVars, idVars, parseVars, callVars>>

\* runner.py 130-137: as_completed yields a task that is done
RunnerCollect ==
    /\ pc = "pool"
    /\ \E i \in DOMAIN futures :
          /\ futures[i].state = "done"
          /\ companies' = AppendIfTruthy(companies, futures[i].result)
          /\ futures' = [futures EXCEPT ![i].state = "collected"]
    /\ UNCHANGED <<pc, runEnv, settings, urls, all_results, fetch_started, exported,
                   exit_code, poolVars,
                   mergeVars, ldVars, curVars, idVars, parseVars, callVars>>

\* runner.py 139-147: no record: return 1; else export and return 0
RunnerFinish ==
    /\ pc = "pool"
    /\ \A i \in DOMAIN futures : futures[i].state = "collected"
    /\ exported' = IF companies = <<>> THEN exported ELSE PyList(companies)
    /\ exit_code' = IF companies = <<>> THEN PyInt(1) ELSE PyInt(0)
    /\ pc' = "run_exit"
    /\ UNCHANGED <<runEnv, settings, urls, futures, companies, all_results, fetch_started,
                   poolVars,
                   mergeVars, ldVars, curVars, idVars, parseVars, callVars>>

\* main.py 67: load_settings; nothing catches what it raises
MainLoadSettings ==
    /\ pc = "run_start" /\ entry = "main"
    /\ settings' = main_load_settings(config_path, config_files)
    /\ pc' = IF IsRaise(settings') THEN "run_exit" ELSE "settings_loaded"
    /\ exit_code' = IF IsRaise(settings') THEN settings' ELSE exit_code
    /\ UNCHANGED <<runEnv, urls, futures, companies, all_results, fetch_started, exported,
                   poolVars,
                   mergeVars, ldVars, curVars, idVars, parseVars, callVars>>

\* main.py 79-87: read the URLs; a missing file raises, no URL returns
MainReadUrls ==
    /\ pc = "settings_loaded" /\ entry = "main"
    /\ urls' = IF input_file.exists THEN read_urls(input_file).v ELSE urls
    /\ exit_code' = IF input_file.exists THEN exit_code ELSE read_urls(input_file)
    /\ pc' = IF urls' = <<>> THEN "run_exit" ELSE "loop"
    /\ UNCHANGED <<runEnv, settings, futures, companies, all_results, fetch_started,
                   exported, poolVars,
                   mergeVars, ldVars, curVars, idVars, parseVars, callVars>>

\* main.py 89-123: one iteration of the loop, for the next URL
MainScrape ==
    /\ pc = "loop" /\ entry = "main"
    /\ Len(all_results) < Len(urls)
    /\ \E response \in Responses :
          all_results' =
              Append(all_results,
                     ResultOrPlaceholder(urls[Len(all_results) + 1],
                                         scrape_company(urls[Len(all_results) + 1], response)))
    /\ fetch_started' = fetch_started \cup {Len(all_results) + 1}
    /\ UNCHANGED <<pc, runEnv, settings, urls, futures, companies, exported, exit_code,
                   poolVars,
                   mergeVars, ldVars, curVars, idVars, parseVars, callVars>>

\* main.py 125: the loop is over, export
MainExport ==
    /\ pc = "loop" /\ entry = "main"
    /\ Len(all_results) = Len(urls)
    /\ exported' = PyList(all_results)
    /\ pc' = "run_exit"
    /\ UNCHANGED <<runEnv, settings, urls, futures, companies, all_results, fetch_started,
                   exit_code, poolVars,
                   mergeVars, ldVars, curVars, idVars, parseVars, callVars>>

NextRun ==
    \/ RunnerLoadSettings
    \/ RunnerReadUrls
    \/ WorkerRun
    \/ RunnerCollect
    \/ RunnerFinish
    \/ MainLoadSettings
    \/ MainReadUrls
    \/ MainScrape
    \/ MainExport

SpecRun == InitRun /\ [][NextRun]_vars

\* a configuration file that the script started would load exists
ConfigFileFound ==
    \/ Truthy(config_path) /\ config_path.v \in config_files
    \/ /\ entry = "main" \/ ~Truthy(config_path)
       /\ S_SettingsJson \in config_files \/ S_SettingsExampleJson \in config_files

\* the input file gives no URL: it is missing, or each line is blank or a comment
NoUrlLines ==
    \/ ~input_file.exists
    \/ \A i \in DOMAIN input_file.lines :
          \/ \A j \in DOMAIN input_file.lines[i] : input_file.lines[i][j] = " "
          \/ \E j \in DOMAIN input_file.lines[i] :
                /\ input_file.lines[i][j] = "#"
                /\ \A k \in 1..(j - 1) : input_file.lines[i][k] = " "

\* C9: when a run that had a configuration and URLs ends, the exported list
\* holds one entry per URL of the list, each URL carried by an entry.
C9_OneEntryPerUrl ==
    pc = "run_exit" /\ ConfigFileFound /\ ~NoUrlLines =>
        /\ exported # PyNone
        /\ Len(exported.v) = Len(urls)
        /\ \A i \in DOMAIN urls :
              \E j \in DOMAIN exported.v : exported.v[j].v.url = PyStr(urls[i])

\* C9 for main.py alone: its loop appends a record or a placeholder with the
\* URL and an error text for every URL, and exports them in the order of the list
C9_MainOneEntryPerUrl ==
    pc = "run_exit" /\ entry = "main" /\ ConfigFileFound /\ ~NoUrlLines =>
        /\ exported # PyNone
        /\ Len(exported.v) = Len(urls)
        /\ \A i \in DOMAIN urls : exported.v[i].v.url = PyStr(urls[i])

\* C10: with no configuration file or no URL in the input, no task is
\* submitted, no fetch is started, and nothing is exported, in any state of the run.
C10_FatalErrorsStopBeforeExtraction ==
    ~ConfigFileFound \/ NoUrlLines =>
        futures = <<>> /\ fetch_started = {} /\ all_results = <<>> /\ exported = PyNone

\* C10 witness: runner.py ended with exit code 1 on a missing configuration
\* although the input file holds URLs
C10_Witness ==
    /\ pc = "run_exit" /\ entry = "runner"
    /\ ~ConfigFileFound /\ ~NoUrlLines
    /\ exit_code = PyInt(1) /\ fetch_started = {} /\ exported = PyNone

\* C10 witness of the empty list: main.py returned, with a configuration,
\* on an input file of blank lines and comments
C10_WitnessEmptyList ==
    /\ pc = "run_exit" /\ entry = "main"
    /\ ConfigFileFound /\ input_file.exists /\ Len(input_file.lines) = MaxLines
    /\ NoUrlLines /\ fetch_started = {} /\ exported = PyNone

-----------------------------------------------------------------------------
(* Specification of the worker pool of runner.py: the tasks run parse_company
   on the one parser, their steps interleaved in every order, and the main
   thread collects what they return *)

MaxWorkers == 2

OtherPage ==
    Page(<<GoodScript(OrgDescriptor(PyStr(<<"B", "e", "t", "a">>), PyNone, PyStr(<<"h", "t", "t", "p", ":", "/", "/", "s">>), PyInt(50),
                                    PyNone, PyNone, PyStr(<<"u", "/", "7">>), PyNone))>>, BarePage)

PoolResponses == Responses \cup {[ok |-> TRUE, text |-> OtherPage]}

Workers == 1..MaxWorkers

InitPool ==
    /\ pc = "pool"
    /\ urls \in [Workers -> {S_UrlA, S_UrlB}]
    /\ responses \in [Workers -> PoolResponses]
    /\ futures = [w \in Workers |-> Future("pending", PyNone)]
    /\ frames = [w \in Workers |-> NewFrame]
    /\ companies = <<>>
    /\ appended_by = {}
    /\ entry = "runner"
    /\ config_path = Idle /\ config_files = Idle /\ input_file = Idle /\ settings = Idle
    /\ all_results = Idle /\ fetch_started = Idle /\ exported = Idle /\ exit_code = Idle
    /\ MergeIdle /\ LdIdle /\ CurIdle /\ IdIdle /\ ParseIdle /\ CallIdle

\* runner.py 63-72 and zoominfo_parser.py 91-94: a worker fetches the page
\* and, given one, enters parse_company
WorkerFetch ==
    /\ \E w \in Workers :
          /\ futures[w].state = "pending"
          /\ futures' = [futures EXCEPT ![w] =
                            IF GivesPage(responses[w]) THEN Future("extracted", PyNone)
                            ELSE Future("done", PyNone)]
          /\ frames' = IF GivesPage(responses[w])
                       THEN [frames EXCEPT ![FrameOf(w)] = FrameAfterLd(responses[w].text)]
                       ELSE frames
    /\ UNCHANGED <<pc, runEnv, settings, urls, companies, all_results, fetch_started,
                   exported, exit_code, responses, appended_by,
                   mergeVars, ldVars, curVars, idVars, parseVars, callVars>>

\* zoominfo_parser.py 97-98; what _parse_from_ld_json raises ends the task
\* with None (runner.py 77-79)
WorkerSources ==
    /\ \E w \in Workers :
          /\ futures[w].state = "extracted"
          /\ frames' = [frames EXCEPT ![FrameOf(w)] = FrameAfterSources(@)]
          /\ futures' = [futures EXCEPT ![w] =
                            IF IsRaise(frames'[FrameOf(w)].base_data)
                            THEN Future("done", PyNone)
                            ELSE Future("sourced", PyNone)]
    /\ UNCHANGED <<pc, runEnv, settings, urls, companies, all_results, fetch_started,
                   exported, exit_code, responses, appended_by,
                   mergeVars, ldVars, curVars, idVars, parseVars, callVars>>

\* zoominfo_parser.py 100-167 and runner.py 73-79: the record, None if the
\* builder raised
WorkerBuild ==
    /\ \E w \in Workers :
          /\ futures[w].state = "sourced"
          /\ futures' = [futures EXCEPT ![w] =
                            Future("done", NoneOnError(FrameRecord(urls[w], frames[FrameOf(w)])))]
    /\ UNCHANGED <<pc, runEnv, settings, urls, companies, all_results, fetch_started,
                   exported, exit_code, responses, frames, appended_by,
                   mergeVars, ldVars, curVars, idVars, parseVars, callVars>>

\* runner.py 130-137: the main thread takes a completed task and appends
PoolCollect ==
    /\ \E w \in Workers :
          /\ futures[w].state = "done"
          /\ companies' = AppendIfTruthy(companies, futures[w].result)
          /\ appended_by' = IF Truthy(futures[w].result)
                            THEN appended_by \cup {"MainThread"} ELSE appended_by
          /\ futures' = [futures EXCEPT ![w].state = "collected"]
    /\ UNCHANGED <<pc, runEnv, settings, urls, all_results, fetch_started, exported,
                   exit_code, responses, frames,
                   mergeVars, ldVars, curVars, idVars, parseVars, callVars>>

NextPool ==
    \/ WorkerFetch
    \/ WorkerSources
    \/ WorkerBuild
    \/ PoolCollect

SpecPool == InitPool /\ [][NextPool]_vars

\* C11: under every interleaving of the workers, what a completed task
\* returned is what a lone call of fetch_and_parse_company returns for the
\* same URL and response, and only the main thread appended to companies.
C11_ReentrantParse ==
    /\ \A w \in Workers :
          futures[w].state \in {"done", "collected"} =>
              futures[w].result = fetch_and_parse_company(urls[w], responses[w])
    /\ appended_by \subseteq {"MainThread"}

\* C11 witness: two tasks inside parse_company at once, on different
\* pages, while a record of an earlier-numbered task is not yet built
C11_Witness ==
    /\ futures[1].state = "extracted" /\ futures[2].state = "sourced"
    /\ responses[1].text # responses[2].text

\* C11 witness of the outcome: both tasks returned records, different ones,
\* and the main thread collected the second task's first
C11_WitnessCollected ==
    /\ Len(companies) = 2
    /\ companies[1] = futures[2].result /\ companies[2] = futures[1].result
    /\ companies[1] # companies[2]
    /\ appended_by = {"MainThread"}

-----------------------------------------------------------------------------
(* Specification of the record builder (parse_company 102-167) over merged
   mappings that give the collection fields every shape of value *)

MaxSetKeys == 2

CollectionFields ==
    {"industry", "popular_searches", "business_classification_codes", "social_media",
     "similar_companies", "email_formats", "products_owned"}

\* null, scalars (one of them the empty text, one zero), and lists with and
\* without null and empty elements
CollectionShapes ==
    { PyNone, PyStr(<<"x">>), PyStr(<<>>), PyInt(0), PyInt(3), PyList(<<>>),
      PyList(<<PyStr(<<"a">>), PyNone, PyStr(<<>>), PyStr(<<"b">>)>>),
      PyList(<<PyStr(<<" ">>), PyInt(0), PyStr(<<"a">>)>>) }

MergedMappings ==
    UNION { [D -> CollectionShapes] :
              D \in {K \in SUBSET CollectionFields : Cardinality(K) <= MaxSetKeys} }

InitBuild ==
    /\ pc = "build_input"
    /\ call_args \in { [url |-> S_UrlA, ld_json_data |-> PyDict(EmptyDict), merged |-> m] :
                         m \in MergedMappings }
    /\ returned = Idle
    /\ MergeIdle /\ LdIdle /\ CurIdle /\ IdIdle /\ ParseIdle /\ RunIdle

DoBuildRecord ==
    /\ pc = "build_input"
    /\ returned' = RecordOrRaise(RecordFields(call_args.url, call_args.ld_json_data,
                                              call_args.merged))
    /\ pc' = "build_done"
    /\ UNCHANGED <<call_args, mergeVars, ldVars, curVars, idVars, parseVars, runVars>>

NextBuild == DoBuildRecord

SpecBuild == InitBuild /\ [][NextBuild]_vars

\* the values Python takes for false among the shapes
FalsyShapes == {PyNone, PyStr(<<>>), PyInt(0), PyList(<<>>)}

IsCollection(x) == x.t = "list"

\* C12 as stated: every collection field is a sequence, empty for a null or
\* absent value, of the one value for a scalar, and without null and
\* empty-text elements.
C12_CollectionsNormalized ==
    pc = "build_done" =>
        /\ ~IsRaise(returned)
        /\ \A f \in CollectionFields :
              /\ IsCollection(returned.v[f])
              /\ Get(call_args.merged, f) = PyNone => returned.v[f].v = <<>>
              /\ Get(call_args.merged, f) \notin {PyNone} /\ ~IsCollection(Get(call_args.merged, f))
                    => returned.v[f].v = <<Get(call_args.merged, f)>>
              /\ \A i \in DOMAIN returned.v[f].v :
                    returned.v[f].v[i] \notin {PyNone, PyStr(<<>>)}

\* C12 amended: every collection field is a sequence: empty for a null or
\* absent value and for a scalar that is false (empty text, zero), of the
\* one value for any other scalar, and for a list its elements that are not
\* false, in order; so no element is null or the empty text.
C12_CollectionsFiltered ==
    pc = "build_done" =>
        /\ ~IsRaise(returned)
        /\ \A f \in CollectionFields :
              /\ IsCollection(returned.v[f])
              /\ returned.v[f].v =
                    IF Get(call_args.merged, f) \in FalsyShapes THEN <<>>
                    ELSE IF IsCollection(Get(call_args.merged, f))
                    THEN SelectSeq(Get(call_args.merged, f).v, LAMBDA e : e \notin FalsyShapes)
                    ELSE <<Get(call_args.merged, f)>>
              /\ \A i \in DOMAIN returned.v[f].v :
                    returned.v[f].v[i] \notin {PyNone, PyStr(<<>>)}

\* C12 witness: a list with null and empty elements filtered, next to a
\* scalar wrapped
C12_Witness ==
    /\ pc = "build_done" /\ ~IsRaise(returned)
    /\ Get(call_args.merged, "industry")
          = PyList(<<PyStr(<<"a">>), PyNone, PyStr(<<>>), PyStr(<<"b">>)>>)
    /\ returned.v.industry = PyList(<<PyStr(<<"a">>), PyStr(<<"b">>)>>)
    /\ Get(call_args.merged, "email_formats") = PyStr(<<"x">>)
    /\ returned.v.email_formats = PyList(<<PyStr(<<"x">>)>>)
    /\ returned.v.products_owned = PyList(<<>>)

-----------------------------------------------------------------------------
(* The error placeholder of main.py, under SpecRun *)

\* the entries of all_results that are placeholders
IsPlaceholder(entry_dict) == "error" \in DOMAIN entry_dict.v

\* C13: a placeholder has the keys of CompanyRecord and error, the URL of its
\* position in the list, a text for error, and null in every other field.
C13_PlaceholderShape ==
    entry = "main" =>
        \A i \in DOMAIN all_results :
            IsPlaceholder(all_results[i]) =>
                /\ DOMAIN all_results[i].v = CompanyRecordFields \cup {"error"}
                /\ all_results[i].v.url = PyStr(urls[i])
                /\ all_results[i].v.error.t = "str"
                /\ \A k \in DOMAIN all_results[i].v \ {"url", "error"} :
                      all_results[i].v[k] = PyNone

\* C13, the part that holds: a placeholder carries the URL of its position,
\* a text for error, and no key that CompanyRecord does not have
C13_PlaceholderUrlAndError ==
    entry = "main" =>
        \A i \in DOMAIN all_results :
            IsPlaceholder(all_results[i]) =>
                /\ DOMAIN all_results[i].v \subseteq CompanyRecordFields \cup {"error"}
                /\ all_results[i].v.url = PyStr(urls[i])
                /\ all_results[i].v.error.t = "str"

\* a record built by parse_company has exactly the fields of CompanyRecord
C13_RecordKeys ==
    entry = "main" =>
        \A i \in DOMAIN all_results :
            ~IsPlaceholder(all_results[i]) => DOMAIN all_results[i].v = CompanyRecordFields

-----------------------------------------------------------------------------
(* Specification of the record builder over merged mappings whose numeric
   fields hold short texts of digits, separators, points and blanks *)

MaxNumLen == 4

NumberAlphabet == {"1", "0", ",", ".", " ", "x"}
S_1234 == <<"1", ",", "2", "3", "4">>
S_1234_5 == <<"1", ",", "2", "3", "4", ".", "5">>
NumberTexts ==
    UNION {[1..n -> NumberAlphabet] : n \in 0..MaxNumLen}
        \cup {S_1234, S_1234_5, <<" ">> \o S_1234 \o <<" ">>, <<" ">> \o S_1234_5}

\* the merged mapping that gives the text to two integer and two float fields
NumericMerged(text) ==
    [employees |-> PyStr(text), funding_rounds |-> PyStr(text), ceo_rating |-> PyStr(text),
     enps_score |-> PyStr(text)]

InitNum ==
    /\ pc = "num_input"
    /\ call_args \in { [url |-> S_UrlB, ld_json_data |-> PyDict(EmptyDict),
                        merged |-> NumericMerged(t)] : t \in NumberTexts }
    /\ returned = Idle
    /\ MergeIdle /\ LdIdle /\ CurIdle /\ IdIdle /\ ParseIdle /\ RunIdle

DoBuildNumbers ==
    /\ pc = "num_input"
    /\ returned' = RecordOrRaise(RecordFields(call_args.url, call_args.ld_json_data,
                                              call_args.merged))
    /\ pc' = "num_done"
    /\ UNCHANGED <<call_args, mergeVars, ldVars, curVars, idVars, parseVars, runVars>>

NextNum == DoBuildNumbers

SpecNum == InitNum /\ [][NextNum]_vars

\* the text without thousands separators and surrounding whitespace
Unformatted(text) == Strip(SelectSeq(text, LAMBDA c : c # ","))

IsDigits(s) == \A i \in DOMAIN s : s[i] \in {"0", "1", "2", "3", "4", "5", "6", "7", "8", "9"}

\* the integer a text of digits denotes, null for any other text
ExpectedInt(s) == IF s # <<>> /\ IsDigits(s) THEN PyInt(ToNat(s)) ELSE PyNone

\* the decimal number digits, digits.digits, digits. or .digits denotes, null
\* for any other text
ExpectedFloat(s) ==
    IF s # <<>> /\ IsDigits(s) THEN MkFloat(ToNat(s), <<>>)
    ELSE IF \E k \in DOMAIN s :
               /\ s[k] = "." /\ Len(s) > 1
               /\ IsDigits(SubSeq(s, 1, k - 1)) /\ IsDigits(SubSeq(s, k + 1, Len(s)))
    THEN LET k == CHOOSE k \in DOMAIN s : s[k] = "."
         IN  MkFloat(ToNat(SubSeq(s, 1, k - 1)), SubSeq(s, k + 1, Len(s)))
    ELSE PyNone

NumberText == call_args.merged.employees.v

\* C14: the integer fields and the float fields alike hold the number the
\* text denotes once separators and surrounding whitespace are removed, null
\* when it denotes none, and the builder does not raise.
C14_NumbersParsed ==
    pc = "num_done" =>
        /\ ~IsRaise(returned)
        /\ returned.v.employees = ExpectedInt(Unformatted(NumberText))
        /\ returned.v.funding_rounds = ExpectedInt(Unformatted(NumberText))
        /\ returned.v.ceo_rating = ExpectedFloat(Unformatted(NumberText))
        /\ returned.v.enps_score = ExpectedFloat(Unformatted(NumberText))

\* C14, the part that holds: the integer fields are parsed so, no text makes
\* the builder raise, and the float fields hold the number the text denotes
\* once surrounding whitespace is removed, so null for a text with a separator
C14_IntegersParsed ==
    pc = "num_done" =>
        /\ ~IsRaise(returned)
        /\ returned.v.employees = ExpectedInt(Unformatted(NumberText))
        /\ returned.v.funding_rounds = ExpectedInt(Unformatted(NumberText))
        /\ returned.v.ceo_rating = ExpectedFloat(Strip(NumberText))
        /\ returned.v.enps_score = ExpectedFloat(Strip(NumberText))

\* parse_float_safe of data_utils.py, which the builder does not call, does
\* what C14 says of the float fields
C14_ParseFloatSafe ==
    pc = "num_done" =>
        parse_float_safe(PyStr(NumberText)) = ExpectedFloat(Unformatted(NumberText))

-----------------------------------------------------------------------------
(* Specification of clean_text over null and all short texts of letters,
   spaces, tabs and newlines *)

MaxTextLen == 5

TextAlphabet == {"a", "b", " ", "\t", "\n"}
CleanInputs == {PyNone} \cup {PyStr(t) : t \in SeqsUpTo(TextAlphabet, MaxTextLen)}

InitClean ==
    /\ pc = "clean_input"
    /\ call_args \in {[value |-> v] : v \in CleanInputs}
    /\ returned = Idle
    /\ MergeIdle /\ LdIdle /\ CurIdle /\ IdIdle /\ ParseIdle /\ RunIdle

DoCleanText ==
    /\ pc = "clean_input"
    /\ returned' = clean_text(call_args.value)
    /\ pc' = "clean_done"
    /\ UNCHANGED <<call_args, mergeVars, ldVars, curVars, idVars, parseVars, runVars>>

NextClean == DoCleanText

SpecClean == InitClean /\ [][NextClean]_vars

Whitespace == {" ", "\t", "\n"}

\* null, or a text without whitespace at its ends, whose whitespace
\* characters are spaces, no two of them adjacent
IsCleanText(x) ==
    \/ x = PyNone
    \/ /\ x.t = "str" /\ x.v # <<>>
       /\ x.v[1] \notin Whitespace /\ x.v[Len(x.v)] \notin Whitespace
       /\ \A i \in DOMAIN x.v : x.v[i] \in Whitespace => x.v[i] = " "
       /\ \A i \in 1..(Len(x.v) - 1) : ~(x.v[i] = " " /\ x.v[i + 1] = " ")

\* the text is null, empty or all whitespace
IsBlank(x) == x = PyNone \/ \A i \in DOMAIN x.v : x.v[i] \in Whitespace

\* C15: cleaning a cleaned text changes nothing; a cleaned text has no
\* whitespace at its ends and single spaces for its whitespace runs; the
\* result is null exactly for null, empty and all-whitespace input.
C15_CleanIdempotent ==
    pc = "clean_done" =>
        /\ clean_text(returned) = returned
        /\ IsCleanText(returned)
        /\ (returned = PyNone) = IsBlank(call_args.value)

\* C15 witness: a text with whitespace at both ends and a run of three
\* whitespace characters inside, cleaned to the two letters and one space
C15_Witness ==
    /\ pc = "clean_done"
    /\ call_args.value = PyStr(<<" ", "a", "\t", "\n", "b">>)
    /\ returned = PyStr(<<"a", " ", "b">>)

-----------------------------------------------------------------------------
(* Specification of parse_company over pages whose one descriptor carries a
   list of additional properties *)

MaxProps == 3

PropNames == {PyStr(<<"A", "n", "n", "u", "a", "l", " ", "R", "E", "V", "E", "N", "U", "E">>), PyStr(<<"F", "u", "n", "d", "i", "n", "g">>), PyStr(<<"S", "i", "z", "e">>)}
PropValues == {PyStr(<<"$", "5">>), PyStr(<<"E", "U", "R", " ", "7">>), PyStr(<<"x">>)}
PropPairs == {PyDict([name |-> n, value |-> v]) : n \in PropNames, v \in PropValues}

\* pairs with a name that holds both words, with a number for value, without
\* value, with an empty name, and without name
OddPairs ==
    << PyDict([name |-> PyStr(<<"r", "e", "v", "e", "n", "u", "e", " ", "f", "u", "n", "d", "i", "n", "g">>), value |-> PyStr(<<"£", "9">>)]),
       PyDict([name |-> PyStr(<<"r", "e", "v", "e", "n", "u", "e">>), value |-> PyInt(3)]),
       PyDict([name |-> PyStr(<<"R", "e", "v", "e", "n", "u", "e">>)]),
       PyDict([name |-> PyStr(<<>>), value |-> PyStr(<<"$", "5">>)]),
       PyDict([value |-> PyStr(<<"$", "5">>)]) >>

PropLists ==
    SeqsUpTo(PropPairs, MaxProps)
        \cup {<<OddPairs[i]>> : i \in DOMAIN OddPairs}
        \cup {<<OddPairs[i], p>> : i \in DOMAIN OddPairs, p \in PropPairs}
        \cup {<<p, OddPairs[i]>> : i \in DOMAIN OddPairs, p \in PropPairs}

PropsPage(props) ==
    Page(<<GoodScript(OrgDescriptor(PyStr(<<"A", "c", "m", "e">>), PyNone, PyNone, PyNone, PyNone,
                                    PyList(props), PyNone, PyNone))>>, BarePage)

InitProps ==
    /\ pc = "props_input"
    /\ call_args \in {[soup |-> PropsPage(ps), url |-> S_UrlA, props |-> ps] : ps \in PropLists}
    /\ returned = Idle
    /\ MergeIdle /\ LdIdle /\ CurIdle /\ IdIdle /\ ParseIdle /\ RunIdle

DoParseProps ==
    /\ pc = "props_input"
    /\ returned' = parse_company(call_args.soup, call_args.url)
    /\ pc' = "props_done"
    /\ UNCHANGED <<call_args, mergeVars, ldVars, curVars, idVars, parseVars, runVars>>

NextProps == DoParseProps

SpecProps == InitProps /\ [][NextProps]_vars

\* the name of a pair, in lower case, holds the word
NameHolds(pair, word) ==
    /\ "name" \in DOMAIN pair.v
    /\ \E i \in 1..(Len(str_of(pair.v.name)) - Len(word) + 1) :
          Lower(SubSeq(str_of(pair.v.name), i, i + Len(word) - 1)) = word

\* the positions of the pairs whose name holds the word
Matching(props, word) == {i \in DOMAIN props : NameHolds(props[i], word)}

\* the extraction from the value of the last pair whose name holds the
\* word, <<None, None>> when no pair does
LastExtraction(props, word) ==
    IF Matching(props, word) = {} THEN <<PyNone, PyNone>>
    ELSE LET last == CHOOSE i \in Matching(props, word) :
                         \A j \in Matching(props, word) : j <= i
         IN  extract_currency_amount(PyStr(str_of(Get(props[last].v, "value"))))

\* the mapping _parse_from_ld_json returns for the page's descriptor
PropsBase == parse_from_ld_json(extract_ld_json(call_args.soup.scripts))

S_revenue == <<"r", "e", "v", "e", "n", "u", "e">>
S_funding == <<"f", "u", "n", "d", "i", "n", "g">>

\* C16: revenue and its currency are the extraction of the value of the last
\* pair named with "revenue", the funding amount and currency that of the
\* last pair named with "funding"; with no such pair the keys are not set and
\* the record's fields are null.
C16_LastPropertyWins ==
    pc = "props_done" =>
        /\ ~IsRaise(returned)
        /\ <<returned.v.revenue, returned.v.revenue_currency>>
              = LastExtraction(call_args.props, S_revenue)
        /\ <<returned.v.total_funding_amount, returned.v.funding_currency>>
              = LastExtraction(call_args.props, S_funding)
        /\ Matching(call_args.props, S_revenue) = {}
              <=> {"revenue", "revenue_currency"} \cap DOMAIN PropsBase = {}
        /\ Matching(call_args.props, S_funding) = {}
              <=> {"total_funding_amount", "funding_currency"} \cap DOMAIN PropsBase = {}

\* C16 witness: two revenue pairs with different amounts around a pair that
\* matches neither word; the record has the second amount and no funding
C16_Witness ==
    /\ pc = "props_done" /\ ~IsRaise(returned)
    /\ call_args.props = << PyDict([name |-> PyStr(<<"A", "n", "n", "u", "a", "l", " ", "R", "E", "V", "E", "N", "U", "E">>), value |-> PyStr(<<"$", "5">>)]),
                            PyDict([name |-> PyStr(<<"S", "i", "z", "e">>), value |-> PyStr(<<"$", "5">>)]),
                            PyDict([name |-> PyStr(<<"A", "n", "n", "u", "a", "l", " ", "R", "E", "V", "E", "N", "U", "E">>), value |-> PyStr(<<"E", "U", "R", " ", "7">>)]) >>
    /\ returned.v.revenue = MkFloat(7, <<>>)
    /\ returned.v.revenue_currency = PyStr(<<"E", "U", "R">>)
    /\ returned.v.total_funding_amount = PyNone

-----------------------------------------------------------------------------
(* Specification of _export_csv over short lists of small records *)

MaxRecords == 2

ExportKeys == {"industry", "revenue", "revenue_currency", "url"}

\* two choices of values for the keys: a text with a comma, a list of texts,
\* a number and null; a text with a quote, an empty list, a mapping and a text
ExportValues ==
    << [url |-> PyStr(<<"a", ",", "b">>),
        industry |-> PyList(<<PyStr(<<"x">>), PyStr(<<"y">>)>>),
        revenue |-> PyInt(5),
        revenue_currency |-> PyNone],
       [url |-> PyStr(<<"q", "\"">>),
        industry |-> PyList(<<>>),
        revenue |-> PyDict([k |-> PyStr(<<"v">>)]),
        revenue_currency |-> PyStr(<<"U", "S", "D">>)] >>

\* the records with any of the keys, valued by one of the choices
ExportRecords ==
    {[k \in ks |-> ExportValues[c][k]] : ks \in SUBSET ExportKeys, c \in DOMAIN ExportValues}

InitCsv ==
    /\ pc = "csv_input"
    /\ call_args \in {[recs |-> rs] : rs \in SeqsUpTo(ExportRecords, MaxRecords)}
    /\ returned = Idle
    /\ MergeIdle /\ LdIdle /\ CurIdle /\ IdIdle /\ ParseIdle /\ RunIdle

DoExportCsv ==
    /\ pc = "csv_input"
    /\ returned' = export_csv(call_args.recs)
    /\ pc' = "csv_done"
    /\ UNCHANGED <<call_args, mergeVars, ldVars, curVars, idVars, parseVars, runVars>>

NextCsv == DoExportCsv

SpecCsv == InitCsv /\ [][NextCsv]_vars

RECURSIVE ReadFields(_, _, _)
\* the cells a CSV reader finds in the rest of a line, cur being the cell
\* read so far and inq telling that a quote is open
ReadFields(rest, cur, inq) ==
    IF rest = <<>> THEN <<cur>>
    ELSE IF inq
         THEN IF Head(rest) # "\"" THEN ReadFields(Tail(rest), Append(cur, Head(rest)), TRUE)
              ELSE IF Len(rest) > 1 /\ rest[2] = "\""
                   THEN ReadFields(Tail(Tail(rest)), Append(cur, "\""), TRUE)
                   ELSE ReadFields(Tail(rest), cur, FALSE)
         ELSE IF Head(rest) = "\"" THEN ReadFields(Tail(rest), cur, TRUE)
              ELSE IF Head(rest) = "," THEN <<cur>> \o ReadFields(Tail(rest), <<>>, FALSE)
              ELSE ReadFields(Tail(rest), Append(cur, Head(rest)), FALSE)

\* the cells of a line of the file (an empty line has none)
Cells(line) == IF line = <<>> THEN <<>> ELSE ReadFields(line, <<>>, FALSE)

\* the keys of the exported records in ascending order of their names
KeysAscending == <<"industry", "revenue", "revenue_currency", "url">>

KeyUsed(k) == \E i \in DOMAIN call_args.recs : k \in DOMAIN call_args.recs[i]

\* the header the claim expects: the keys some record has, ascending
ExpectedHeader == SelectSeq(KeysAscending, KeyUsed)

\* the cell of record i under the j-th key of the expected header
CellOf(i, j) == Cells(returned.lines[i + 1])[j]

\* what the claim says of the cell of a value under a key
CellAsClaimed(rec, k, cell) ==
    /\ k \notin DOMAIN rec => cell = <<>>
    /\ k \in DOMAIN rec /\ rec[k].t \in {"list", "dict"} => cell = JsonText(rec[k])
    /\ k \in DOMAIN rec /\ rec[k].t = "str" => cell = rec[k].v

\* C17: for a non-empty list the file has a header that is the sorted union
\* of the keys, then one row per record in the order of the list; under a key
\* a record lacks the cell is empty, and a list or mapping is its JSON text.
C17_CsvExport ==
    pc = "csv_done" /\ call_args.recs # <<>> =>
        /\ returned.t = "file"
        /\ Len(returned.lines) = Len(call_args.recs) + 1
        /\ Cells(returned.lines[1]) = [j \in DOMAIN ExpectedHeader |-> KeySpelling[ExpectedHeader[j]]]
        /\ \A i \in DOMAIN call_args.recs :
              /\ Len(Cells(returned.lines[i + 1])) = Len(ExpectedHeader)
              /\ \A j \in DOMAIN ExpectedHeader :
                    CellAsClaimed(call_args.recs[i], ExpectedHeader[j], CellOf(i, j))

\* C17 witness: two records with different keys; the header is
\* industry,url, the first row has the list as JSON text between quotes and
\* an empty cell, the second an empty cell and the text
C17_Witness ==
    /\ pc = "csv_done"
    /\ call_args.recs = << [industry |-> PyList(<<PyStr(<<"x">>), PyStr(<<"y">>)>>)],
                           [url |-> PyStr(<<"a", ",", "b">>)] >>
    /\ returned = CsvFile(<< <<"i", "n", "d", "u", "s", "t", "r", "y", ",", "u", "r", "l">>,
                             <<"\"", "[", "\"", "\"", "x", "\"", "\"", ",", " ",
                               "\"", "\"", "y", "\"", "\"", "]", "\"", ",">>,
                             <<",", "\"", "a", ",", "b", "\"">> >>)

\* nothing is written for an empty list
C17_EmptyListNoFile ==
    pc = "csv_done" /\ call_args.recs = <<>> => returned = NoFile

-----------------------------------------------------------------------------
(* Specification of parse_company over pages with and without a qualifying
   descriptor, the descriptor's industry and sameAs taking the shapes JSON
   allows, the heuristic content varying *)

S_Fin == <<"F", "i", "n">>
S_LinkS == <<"h", "t", "t", "p", ":", "/", "/", "s">>

\* the shapes of a descriptor's industry, each with the industry the record
\* is to have
IndustryCases ==
    { [shape |-> PyNone, industry |-> <<>>],
      [shape |-> PyStr(<<>>), industry |-> <<>>],
      [shape |-> PyStr(S_Fin), industry |-> <<PyStr(S_Fin)>>],
      [shape |-> PyList(<<>>), industry |-> <<>>],
      [shape |-> PyList(<<PyStr(S_Fin), PyStr(<<>>), PyStr(<<"I", "n", "s">>)>>),
       industry |-> <<PyStr(S_Fin), PyStr(<<"I", "n", "s">>)>>] }

\* the shapes of a descriptor's sameAs, each with the links the record is to
\* have
SameAsCases ==
    { [shape |-> PyNone, social |-> <<>>],
      [shape |-> PyStr(S_LinkS), social |-> <<PyStr(S_LinkS)>>],
      [shape |-> PyList(<<PyStr(S_LinkS), PyInt(3)>>), social |-> <<PyStr(S_LinkS)>>] }

QualifyingTypes == {S_Organization, S_Corporation}

IndustryDescriptor(type, industry, same_as) ==
    PyDict(("@type" :> PyStr(type)) @@ ("name" :> PyStr(<<"A", "c", "m", "e">>))
           @@ ("url" :> PyStr(<<"h", "t", "t", "p", ":", "/", "/", "a">>)) @@ ("industry" :> industry)
           @@ ("sameAs" :> same_as))

\* the scripts of a page without qualifying descriptor
UnqualifiedScripts ==
    { <<>>, <<BadScript>>, <<GoodScript(Descriptor(S_Person, <<"c">>))>>,
      <<GoodScript(IndustryDescriptor(S_Person, PyStr(S_Fin), PyStr(S_LinkS)))>> }

IndustryInputs ==
    { [soup |-> Page(<<GoodScript(IndustryDescriptor(ty, ic.shape, sc.shape))>>, h), url |-> u,
       qualifies |-> TRUE, given |-> ic.shape, industry |-> ic.industry, social |-> sc.social] :
         ty \in QualifyingTypes, ic \in IndustryCases, sc \in SameAsCases,
         h \in HeuristicContents, u \in {S_UrlA, S_UrlB} }
    \cup
    { [soup |-> Page(scr, h), url |-> u,
       qualifies |-> FALSE, given |-> PyNone, industry |-> <<>>, social |-> <<>>] :
         scr \in UnqualifiedScripts, h \in HeuristicContents, u \in {S_UrlA, S_UrlB} }

InitIndustry ==
    /\ pc = "industry_input"
    /\ call_args \in IndustryInputs
    /\ returned = Idle
    /\ MergeIdle /\ LdIdle /\ CurIdle /\ IdIdle /\ ParseIdle /\ RunIdle

DoParseIndustry ==
    /\ pc = "industry_input"
    /\ returned' = parse_company(call_args.soup, call_args.url)
    /\ pc' = "industry_done"
    /\ UNCHANGED <<call_args, mergeVars, ldVars, curVars, idVars, parseVars, runVars>>

NextIndustry == DoParseIndustry

SpecIndustry == InitIndustry /\ [][NextIndustry]_vars

\* the mapping _parse_from_ld_json returns for the descriptor selected on the
\* page
IndustryBase == parse_from_ld_json(extract_ld_json(call_args.soup.scripts))

\* the non-empty texts of the page's industry elements
HeuristicIndustry ==
    [i \in DOMAIN SelectSeq(call_args.soup.industry_tags, LAMBDA text : text # <<>>)
        |-> PyStr(SelectSeq(call_args.soup.industry_tags, LAMBDA text : text # <<>>)[i])]

\* C18: on a page with a qualifying descriptor the structured extractor sets
\* industry and social_media to lists (empty when the descriptor has none) and
\* the record has the descriptor's industry and links whatever the heuristics
\* find; the record has the heuristic industry only on a page without any
\* qualifying descriptor.
C18_IndustryFromDescriptor ==
    pc = "industry_done" =>
        /\ ~IsRaise(returned)
        /\ call_args.qualifies =>
              /\ IndustryBase["industry"].t = "list"
              /\ IndustryBase["social_media"].t = "list"
              /\ call_args.given = PyNone => IndustryBase["industry"] = PyList(<<>>)
              /\ returned.v.industry = PyList(call_args.industry)
              /\ returned.v.social_media = PyList(call_args.social)
        /\ ~call_args.qualifies =>
              /\ returned.v.industry = PyList(HeuristicIndustry)
              /\ returned.v.social_media = PyList(<<>>)

\* C18 witness: a qualifying descriptor without industry on a page whose
\* industry elements have text; the record's industry is empty
C18_Witness ==
    /\ pc = "industry_done" /\ ~IsRaise(returned)
    /\ call_args.qualifies /\ call_args.given = PyNone
    /\ HeuristicIndustry # <<>>
    /\ returned.v.industry = PyList(<<>>)

\* C18 witness without descriptor: the same heuristic content gives the
\* record its industry
C18_WitnessHeuristic ==
    /\ pc = "industry_done" /\ ~IsRaise(returned)
    /\ ~call_args.qualifies
    /\ returned.v.industry = PyList(<<PyStr(<<"T", "e", "c", "h">>)>>)

====
